---- MODULE Spec2Model ----
(***************************************************************************)
(* Model of the two report pages of predictatrade-ml:                      *)
(*   src/web/app.js                 (report view: loadReport)              *)
(*   src/web/nakshatra_rationale.js (nakshatra view: loadNakshatra)        *)
(*                                                                         *)
(* JavaScript text is a sequence of one-character strings, so that         *)
(* toLowerCase, toUpperCase, includes and slice are computed, not assumed. *)
(* A JavaScript value is a record [t, s, n]: t its type tag, s its text    *)
(* (when t = "str"), n its number (when t = "num").  A JavaScript object   *)
(* (one record of a report) is the sequence of its entries [k, v] in       *)
(* insertion order, with pairwise distinct keys.                           *)
(***************************************************************************)
EXTENDS Integers, Sequences, FiniteSets, TLC

VARIABLES
    pf,          \* pickField harness: the call's arguments and its result
    rd,          \* render harness: one payload and what the builders made of it
    page,        \* which page is loaded: "app" or "nakshatra"
    form,        \* the form inputs [date, session, timeframe, clientTz]
    status,      \* the status element [cls, kind, msg, date, tf, rows]: its class
                 \* ("", "ok", "error") and the parts of its text
    container,   \* app.js: #tableContainer, a sequence of tables (sequences of rows)
    nakBody,     \* nakshatra: #nakBody, a sequence of rows
    summaryRow,  \* #summaryRow, a sequence of pills
    csvHref,     \* #downloadCsv.href
    inflight,    \* the loads suspended at `await fetch(url)`
    reading,     \* the loads suspended at `await res.json()` or `await res.text()`
    issued,      \* number of loads started so far (the next load's id is issued + 1)
    fetches,     \* per load (by id), the number of fetch() calls it made
    burst,       \* history: number of fetches issued since no load was outstanding
    ended,       \* number of loads that ran to their end (success or catch)
    last         \* history: the load that ended last, with its request and response

vars == <<pf, rd, page, form, status, container, nakBody, summaryRow, csvHref,
          inflight, reading, issued, fetches, burst, ended, last>>

----------------------------------------------------------------------------
(* Bounds of the model *)

MaxEntries == 2
MaxRows == 2
MaxLoads == 2

----------------------------------------------------------------------------
(* JavaScript text *)

UpperChars == <<"A","B","C","D","E","F","G","H","I","J","K","L","M",
                "N","O","P","Q","R","S","T","U","V","W","X","Y","Z">>
LowerChars == <<"a","b","c","d","e","f","g","h","i","j","k","l","m",
                "n","o","p","q","r","s","t","u","v","w","x","y","z">>
DigitChars == <<"0","1","2","3","4","5","6","7","8","9">>

IndexIn(c, chars) == IF \E i \in 1..Len(chars) : chars[i] = c
                     THEN CHOOSE i \in 1..Len(chars) : chars[i] = c
                     ELSE 0

\* the letters of the Latin-1 supplement (U+00C0..U+00DE without the
\* multiplication sign, U+00E0..U+00FE without the division sign)
Latin1Upper == <<"À","Á","Â","Ã","Ä","Å","Æ","Ç","È","É","Ê","Ë","Ì","Í","Î",
                "Ï","Ð","Ñ","Ò","Ó","Ô","Õ","Ö","Ø","Ù","Ú","Û","Ü","Ý","Þ">>
Latin1Lower == <<"à","á","â","ã","ä","å","æ","ç","è","é","ê","ë","ì","í","î",
                "ï","ð","ñ","ò","ó","ô","õ","ö","ø","ù","ú","û","ü","ý","þ">>

\* The case mappings of the 26 letters and of the Latin-1 letters, and those
\* of the Latin-1 characters whose image leaves Latin-1 or changes length:
\* the sharp s upper-cases to "SS", the micro sign to the Greek capital mu
\* and y with diaeresis to its capital; these two capitals, which a module
\* cannot hold as characters, are written by their code points "U+039C" and
\* "U+0178" (and the small mu as "U+03BC").  Every other character maps to
\* itself.  Text is taken from ASCII and Latin-1; cased characters beyond
\* these code points are outside the model.
LowerOf ==
    [c \in {UpperChars[i] : i \in 1..26} \cup {Latin1Upper[i] : i \in 1..Len(Latin1Upper)}
             \cup {"U+039C", "U+0178"} |->
        IF IndexIn(c, UpperChars) > 0 THEN LowerChars[IndexIn(c, UpperChars)]
        ELSE IF IndexIn(c, Latin1Upper) > 0 THEN Latin1Lower[IndexIn(c, Latin1Upper)]
        ELSE IF c = "U+039C" THEN "U+03BC"
        ELSE "ÿ"]
UpperOf ==
    [c \in {LowerChars[i] : i \in 1..26} \cup {Latin1Lower[i] : i \in 1..Len(Latin1Lower)}
             \cup {"ß", "µ", "U+03BC", "ÿ"} |->
        IF IndexIn(c, LowerChars) > 0 THEN <<UpperChars[IndexIn(c, LowerChars)]>>
        ELSE IF IndexIn(c, Latin1Lower) > 0 THEN <<Latin1Upper[IndexIn(c, Latin1Lower)]>>
        ELSE IF c = "ß" THEN <<"S", "S">>
        ELSE IF c \in {"µ", "U+03BC"} THEN <<"U+039C">>
        ELSE <<"U+0178">>]

\* one character lower-cased (a character), upper-cased (a text: one
\* character, or two for the sharp s)
LowerChar(c) == IF c \in DOMAIN LowerOf THEN LowerOf[c] ELSE c
UpperChar(c) == IF c \in DOMAIN UpperOf THEN UpperOf[c] ELSE <<c>>

RECURSIVE ConcatUpper(_)
ConcatUpper(s) == IF Len(s) = 0 THEN <<>> ELSE UpperChar(s[1]) \o ConcatUpper(Tail(s))

\* String.prototype.toLowerCase / toUpperCase
toLowerCase(s) == [i \in 1..Len(s) |-> LowerChar(s[i])]
toUpperCase(s) ==
    IF \A i \in 1..Len(s) : s[i] # "ß"
    THEN [i \in 1..Len(s) |-> UpperChar(s[i])[1]]
    ELSE ConcatUpper(s)

\* String.prototype.includes: p occurs in s as a contiguous run (the empty p always does)
includes(s, p) ==
    \E i \in 0..(Len(s) - Len(p)) : \A j \in 1..Len(p) : s[i + j] = p[j]

\* String.prototype.slice(0, n)
slice0(s, n) == SubSeq(s, 1, IF Len(s) < n THEN Len(s) ELSE n)

\* the decimal digits of a natural number, as `${n}` and String(n) write it
RECURSIVE Decimal(_)
Decimal(n) == IF n < 10 THEN <<DigitChars[n + 1]>>
              ELSE Decimal(n \div 10) \o <<DigitChars[(n % 10) + 1]>>

Min(S) == CHOOSE x \in S : \A y \in S : x <= y

----------------------------------------------------------------------------
(* JavaScript values *)

Str(s)  == [t |-> "str",   s |-> s,    n |-> 0]
Num(n)  == [t |-> "num",   s |-> <<>>, n |-> n]
Null    == [t |-> "null",  s |-> <<>>, n |-> 0]
Undef   == [t |-> "undef", s |-> <<>>, n |-> 0]
\* a built-in function, by its name, and the object Object.prototype
Fn(name) == [t |-> "fn",   s |-> name, n |-> 0]
ObjectPrototype == [t |-> "obj", s |-> <<>>, n |-> 0]

\* ToBoolean: undefined, null, "" and 0 are falsy; functions and objects
\* are truthy
Truthy(v) == CASE v.t = "str" -> Len(v.s) > 0
               [] v.t = "num" -> v.n # 0
               [] v.t \in {"fn", "obj"} -> TRUE
               [] OTHER -> FALSE

\* a || b   and   a ?? b
Or(a, b) == IF Truthy(a) THEN a ELSE b
Nullish(a, b) == IF a.t \in {"undef", "null"} THEN b ELSE a

\* the text of a built-in function ("function Object() { [native code] }")
\* and of a plain object
T_function == <<"f","u","n","c","t","i","o","n"," ">>
T_native_code == <<"(",")"," ","{"," ","[","n","a","t","i","v","e"," ","c","o","d","e","]"," ","}">>
T_object_Object == <<"[","o","b","j","e","c","t"," ","O","b","j","e","c","t","]">>

\* String(v) and `${v}`
StringOf(v) == CASE v.t = "str" -> v.s
                 [] v.t = "num" -> IF v.n < 0 THEN <<"-">> \o Decimal(0 - v.n) ELSE Decimal(v.n)
                 [] v.t = "null" -> <<"n","u","l","l">>
                 [] v.t = "fn" -> T_function \o v.s \o T_native_code
                 [] v.t = "obj" -> T_object_Object
                 [] OTHER -> <<"u","n","d","e","f","i","n","e","d">>

\* the properties every plain object inherits from Object.prototype
N_constructor == <<"c","o","n","s","t","r","u","c","t","o","r">>
N_Object == <<"O","b","j","e","c","t">>
N_toString == <<"t","o","S","t","r","i","n","g">>
N_toLocaleString == <<"t","o","L","o","c","a","l","e","S","t","r","i","n","g">>
N_valueOf == <<"v","a","l","u","e","O","f">>
N_hasOwnProperty == <<"h","a","s","O","w","n","P","r","o","p","e","r","t","y">>
N_isPrototypeOf == <<"i","s","P","r","o","t","o","t","y","p","e","O","f">>
N_propertyIsEnumerable == <<"p","r","o","p","e","r","t","y","I","s","E","n","u","m","e","r","a","b","l","e">>
N_proto == <<"_","_","p","r","o","t","o","_","_">>
N_defineGetter == <<"_","_","d","e","f","i","n","e","G","e","t","t","e","r","_","_">>
N_defineSetter == <<"_","_","d","e","f","i","n","e","S","e","t","t","e","r","_","_">>
N_lookupGetter == <<"_","_","l","o","o","k","u","p","G","e","t","t","e","r","_","_">>
N_lookupSetter == <<"_","_","l","o","o","k","u","p","S","e","t","t","e","r","_","_">>
InheritedFunctions == {N_constructor, N_toString, N_toLocaleString, N_valueOf,
                       N_hasOwnProperty, N_isPrototypeOf, N_propertyIsEnumerable,
                       N_defineGetter, N_defineSetter, N_lookupGetter, N_lookupSetter}

\* obj[key] on a plain object (one built by JSON.parse or by an object
\* literal): the value of the own entry with that key; else what the
\* prototype chain gives: a built-in function for the method names of
\* Object.prototype (constructor is the function Object), Object.prototype
\* itself for "__proto__"; else undefined.  These are the twelve names of
\* Object.prototype.  (The properties a one-character string row takes from
\* String.prototype are not in the model; no key read from a row names one.)
Get(row, key) == IF \E i \in 1..Len(row) : row[i].k = key
                 THEN row[CHOOSE i \in 1..Len(row) : row[i].k = key].v
                 ELSE IF key = N_constructor THEN Fn(N_Object)
                 ELSE IF key \in InheritedFunctions THEN Fn(key)
                 ELSE IF key = N_proto THEN ObjectPrototype
                 ELSE Undef

\* the test of nakshatra_rationale.js lines 11 and 19:
\* v !== undefined && v !== null && v !== ""
NonEmpty(v) == v.t # "undef" /\ v.t # "null" /\ v # Str(<<>>)

----------------------------------------------------------------------------
(* Field names and literals of the source *)

K_nakshatra_bias == <<"n","a","k","s","h","a","t","r","a","_","b","i","a","s">>
K_nakshatra_score == <<"n","a","k","s","h","a","t","r","a","_","s","c","o","r","e">>
K_nakshatra_bullish_score == <<"n","a","k","s","h","a","t","r","a","_","b","u","l","l","i","s","h","_","s","c","o","r","e">>
K_nakshatra_quality == <<"n","a","k","s","h","a","t","r","a","_","q","u","a","l","i","t","y">>
K_astro_bias == <<"a","s","t","r","o","_","b","i","a","s">>
K_astrological_bias == <<"a","s","t","r","o","l","o","g","i","c","a","l","_","b","i","a","s">>
K_trade_recommendation == <<"t","r","a","d","e","_","r","e","c","o","m","m","e","n","d","a","t","i","o","n">>
K_gold_signal_score == <<"g","o","l","d","_","s","i","g","n","a","l","_","s","c","o","r","e">>
K_base_score == <<"b","a","s","e","_","s","c","o","r","e">>
K_position_size_percentage == <<"p","o","s","i","t","i","o","n","_","s","i","z","e","_","p","e","r","c","e","n","t","a","g","e">>
K_timeframe == <<"t","i","m","e","f","r","a","m","e">>

T_bias == <<"b","i","a","s">>
T_direction == <<"d","i","r","e","c","t","i","o","n">>
T_score == <<"s","c","o","r","e">>
T_quality == <<"q","u","a","l","i","t","y">>
T_guna == <<"g","u","n","a">>
T_nature == <<"n","a","t","u","r","e">>
T_bull == <<"b","u","l","l">>
T_bear == <<"b","e","a","r">>
T_strong == <<"s","t","r","o","n","g">>
T_soft == <<"s","o","f","t">>
T_mridu == <<"m","r","i","d","u">>
T_sharp == <<"s","h","a","r","p">>
T_tikshna == <<"t","i","k","s","h","n","a">>
T_STRONG_BUY == <<"S","T","R","O","N","G"," ","B","U","Y">>
T_BUY == <<"B","U","Y">>
T_STRONG_SELL == <<"S","T","R","O","N","G"," ","S","E","L","L">>
T_SELL == <<"S","E","L","L">>
T_100pct == <<"1","0","0","%">>

----------------------------------------------------------------------------
(* pickField, nakshatra_rationale.js lines 8-27 *)

\* pickField with its two passes swapped (fuzzy scan first, exact keys second)
\* a default parameter (`fallback = ""`, line 8): the default stands in when
\* the argument is left out or is undefined
DefaultTo(arg, default) == IF arg = Undef THEN default ELSE arg

pickFieldFuzzyFirst(row, exactKeys, fuzzyParts, fallback) ==
    LET lowerParts == [i \in 1..Len(fuzzyParts) |-> toLowerCase(fuzzyParts[i])]
        fuzzy == { j \in 1..Len(row) :
                     /\ NonEmpty(row[j].v)
                     /\ \E p \in 1..Len(lowerParts) :
                            includes(toLowerCase(row[j].k), lowerParts[p]) }
        exact == { i \in 1..Len(exactKeys) : NonEmpty(Get(row, exactKeys[i])) }
    IN  IF fuzzy # {} THEN row[Min(fuzzy)].v
        ELSE IF exact # {} THEN Get(row, exactKeys[Min(exact)])
        ELSE DefaultTo(fallback, Str(<<>>))

\* pickField testing truthiness (`if (row[key])`) instead of
\* the three explicit comparisons, so that 0 counts as empty
pickFieldTruthy(row, exactKeys, fuzzyParts, fallback) ==
    LET exact == { i \in 1..Len(exactKeys) : Truthy(Get(row, exactKeys[i])) }
        lowerParts == [i \in 1..Len(fuzzyParts) |-> toLowerCase(fuzzyParts[i])]
        fuzzy == { j \in 1..Len(row) :
                     /\ Truthy(row[j].v)
                     /\ \E p \in 1..Len(lowerParts) :
                            includes(toLowerCase(row[j].k), lowerParts[p]) }
    IN  IF exact # {} THEN Get(row, exactKeys[Min(exact)])
        ELSE IF fuzzy # {} THEN row[Min(fuzzy)].v
        ELSE DefaultTo(fallback, Str(<<>>))

\* a pickField that gives the fuzzy parts priority in their list order: the
\* first part some non-empty entry matches decides, then the first such entry
pickFieldPartOrder(row, exactKeys, fuzzyParts, fallback) ==
    LET exact == { i \in 1..Len(exactKeys) : NonEmpty(Get(row, exactKeys[i])) }
        lowerParts == [i \in 1..Len(fuzzyParts) |-> toLowerCase(fuzzyParts[i])]
        hits(p) == { j \in 1..Len(row) :
                       /\ NonEmpty(row[j].v)
                       /\ includes(toLowerCase(row[j].k), lowerParts[p]) }
        parts == { p \in 1..Len(lowerParts) : hits(p) # {} }
    IN  IF exact # {} THEN Get(row, exactKeys[Min(exact)])
        ELSE IF parts # {} THEN row[Min(hits(Min(parts)))].v
        ELSE DefaultTo(fallback, Str(<<>>))

pickField(row, exactKeys, fuzzyParts, fallback) ==
    LET \* 1) exact keys, in list order (lines 10-14)
        exact == { i \in 1..Len(exactKeys) : NonEmpty(Get(row, exactKeys[i])) }
        \* 2) fuzzy key name match, in the record's entry order (lines 17-24)
        lowerParts == [i \in 1..Len(fuzzyParts) |-> toLowerCase(fuzzyParts[i])]
        fuzzy == { j \in 1..Len(row) :
                     /\ NonEmpty(row[j].v)
                     /\ \E p \in 1..Len(lowerParts) :
                            includes(toLowerCase(row[j].k), lowerParts[p]) }
    IN  IF exact # {} THEN Get(row, exactKeys[Min(exact)])
        ELSE IF fuzzy # {} THEN row[Min(fuzzy)].v
        ELSE DefaultTo(fallback, Str(<<>>))

----------------------------------------------------------------------------
(* parseFloat (of String(v)) and the two tests the views make of its       *)
(* result.  A parsed number is kept exactly, as sign, decimal mantissa and  *)
(* decimal exponent: [kind |-> "num", neg, m, e] stands for (-)m * 10^e;    *)
(* kind "inf" is (-)Infinity and kind "nan" is NaN.  Mantissa and exponent  *)
(* are read from at most nine significant digits each.                      *)

IsDigit(c) == c \in {"0","1","2","3","4","5","6","7","8","9"}

\* the white space and line terminators parseFloat skips (ECMAScript
\* WhiteSpace and LineTerminator): tab, line feed, line tabulation, form
\* feed, carriage return, blank, no-break space, and, written as code-point
\* names, the space separators and line separators beyond U+00FF
UnicodeSpaces == {"U+1680", "U+2000", "U+2001", "U+2002", "U+2003", "U+2004", "U+2005",
                  "U+2006", "U+2007", "U+2008", "U+2009", "U+200A", "U+2028", "U+2029",
                  "U+202F", "U+205F", "U+3000", "U+FEFF"}
WhiteSpaceChars == {"\t", "\n", "", "\f", "\r", " ", " "} \cup UnicodeSpaces

RECURSIVE SkipBlanks(_)
SkipBlanks(s) == IF Len(s) > 0 /\ s[1] \in WhiteSpaceChars THEN SkipBlanks(Tail(s)) ELSE s

RECURSIVE DigitRun(_)
DigitRun(s) == IF Len(s) > 0 /\ IsDigit(s[1]) THEN <<s[1]>> \o DigitRun(Tail(s)) ELSE <<>>

RECURSIVE DigitsValue(_)
DigitsValue(d) == IF Len(d) = 0 THEN 0
                  ELSE 10 * DigitsValue(SubSeq(d, 1, Len(d) - 1)) + (IndexIn(d[Len(d)], DigitChars) - 1)

RECURSIVE StripLeadingZeros(_)
StripLeadingZeros(d) == IF Len(d) > 0 /\ d[1] = "0" THEN StripLeadingZeros(Tail(d)) ELSE d

RECURSIVE StripTrailingZeros(_)
StripTrailingZeros(d) ==
    IF Len(d) > 0 /\ d[Len(d)] = "0" THEN StripTrailingZeros(SubSeq(d, 1, Len(d) - 1)) ELSE d

RECURSIVE Pow10(_)
Pow10(k) == IF k = 0 THEN 1 ELSE 10 * Pow10(k - 1)

\* whether text s starts with text p
StartsWith(s, p) == Len(s) >= Len(p) /\ SubSeq(s, 1, Len(p)) = p

T_Infinity == <<"I","n","f","i","n","i","t","y">>

NaN == [kind |-> "nan", neg |-> FALSE, m |-> 0, e |-> 0]

\* an optional sign in front of a number or of an exponent
IsNegative(s) == Len(s) > 0 /\ s[1] = "-"
StripSign(s) == IF Len(s) > 0 /\ s[1] \in {"-", "+"} THEN Tail(s) ELSE s

\* the digits of the fraction at the head of s (after the integer digits),
\* and the text after that fraction
FractionOf(s) == IF Len(s) > 0 /\ s[1] = "." THEN DigitRun(Tail(s)) ELSE <<>>
AfterFraction(s) ==
    IF Len(s) > 0 /\ s[1] = "." THEN SubSeq(s, Len(DigitRun(Tail(s))) + 2, Len(s)) ELSE s

\* the value of the exponent part at the head of s: an "e" with no digits
\* after it is not part of the number
SignedDigits(s) ==
    IF IsNegative(s) THEN 0 - DigitsValue(StripLeadingZeros(DigitRun(StripSign(s))))
    ELSE DigitsValue(StripLeadingZeros(DigitRun(StripSign(s))))
ExponentOf(s) == IF Len(s) > 0 /\ s[1] \in {"e", "E"} THEN SignedDigits(Tail(s)) ELSE 0

\* the number with integer digits int, fraction digits frac and exponent exp
DecimalOf(neg, int, frac, exp) ==
    IF Len(int) + Len(frac) = 0 THEN NaN
    ELSE [kind |-> "num", neg |-> neg,
          m |-> DigitsValue(StripLeadingZeros(int \o StripTrailingZeros(frac))),
          e |-> exp - Len(StripTrailingZeros(frac))]

\* the number whose integer digits int were read, rest being the text after
\* them
DecimalAfter(neg, int, rest) ==
    DecimalOf(neg, int, FractionOf(rest), ExponentOf(AfterFraction(rest)))

\* the number at the head of s, its sign already read
UnsignedDecimal(neg, s) ==
    IF StartsWith(s, T_Infinity) THEN [kind |-> "inf", neg |-> neg, m |-> 0, e |-> 0]
    ELSE DecimalAfter(neg, DigitRun(s), SubSeq(s, Len(DigitRun(s)) + 1, Len(s)))

StrDecimalLiteral(s) == UnsignedDecimal(IsNegative(s), StripSign(s))

\* parseFloat(v): the longest prefix of String(v), after white space, that is
\* a StrDecimalLiteral: sign, then "Infinity" or digits with an optional
\* fraction and an optional exponent part
parseFloat(v) == StrDecimalLiteral(SkipBlanks(StringOf(v)))

\* the number of decimal digits of a positive integer
RECURSIVE NumDigits(_)
NumDigits(n) == IF n < 10 THEN 1 ELSE 1 + NumDigits(n \div 10)

\* x >= t for a parsed number x and a positive integer t of one digit (the
\* thresholds of app.js line 184 and nakshatra_rationale.js line 217):
\* false for NaN and for every negative x, true for +Infinity
AtLeast(x, t) ==
    CASE x.kind = "nan" -> FALSE
      [] x.kind = "inf" -> ~x.neg
      [] OTHER ->
           /\ ~x.neg
           /\ x.m > 0
           /\ IF x.e >= 0
              THEN x.m >= t \/ x.e >= 1
              ELSE /\ NumDigits(x.m) > 0 - x.e
                   /\ x.m >= t * Pow10(0 - x.e)

\* the largest finite double is 1.7976931348623157e308: its decimal order
\* and its first nine digits
MaxDoubleOrder == 309
MaxDoubleLead == 179769313

\* Number.isFinite(x): a number whose magnitude a double holds without
\* rounding to Infinity
IsFinite(x) ==
    /\ x.kind = "num"
    /\ \/ x.m = 0
       \/ NumDigits(x.m) + x.e < MaxDoubleOrder
       \/ /\ NumDigits(x.m) + x.e = MaxDoubleOrder
          /\ x.m * Pow10(9 - NumDigits(x.m)) <= MaxDoubleLead

----------------------------------------------------------------------------
(* Code units and code points of a text *)

\* A character of a text is one UTF-16 code unit.  The units 1..255 are
\* written as themselves, but for the double quote (34), the backslash (92)
\* and the backtick (96), which are written as names; every other unit is
\* written as its name "U+" and four hex digits ("U+0000", "U+2003"), a
\* character beyond U+FFFF as the two names of its surrogate pair.

\* the characters of codes 32..126 in code order
AsciiChars == <<" ","!","dquote","#","$","%","&","'","(",")","*","+",",","-",".","/",
                "0","1","2","3","4","5","6","7","8","9",":",";","<","=",">","?",
                "@","A","B","C","D","E","F","G","H","I","J","K","L","M","N","O",
                "P","Q","R","S","T","U","V","W","X","Y","Z","[","backslash","]","^","_",
                "backtick","a","b","c","d","e","f","g","h","i","j","k","l","m","n","o",
                "p","q","r","s","t","u","v","w","x","y","z","{","|","}","~">>

HexChars == <<"0","1","2","3","4","5","6","7","8","9","A","B","C","D","E","F">>

\* the characters of codes 160..255 in code order
Latin1Chars == <<" ","¡","¢","£","¤","¥","¦","§","¨","©","ª","«","¬","­","®","¯",
                "°","±","²","³","´","µ","¶","·","¸","¹","º","»","¼","½","¾","¿",
                "À","Á","Â","Ã","Ä","Å","Æ","Ç","È","É","Ê","Ë","Ì","Í","Î","Ï",
                "Ð","Ñ","Ò","Ó","Ô","Õ","Ö","×","Ø","Ù","Ú","Û","Ü","Ý","Þ","ß",
                "à","á","â","ã","ä","å","æ","ç","è","é","ê","ë","ì","í","î","ï",
                "ð","ñ","ò","ó","ô","õ","ö","÷","ø","ù","ú","û","ü","ý","þ","ÿ">>

\* the control characters of codes 1..31 and of codes 127..159 in code order
ControlChars == <<"","","","","","","","","\t","\n","","\f","\r","","","",
                  "","","","","","","","","","","","","","","">>
C1Chars == <<"","","","","","","","","","","","","","","","",
             "","","","","","","","","","","","","","","","",
             "">>

\* the value of the hex digits of a code unit name, from its third character
\* to its i-th
RECURSIVE HexValue(_, _)
HexValue(name, i) ==
    IF i < 3 THEN 0
    ELSE 16 * HexValue(name, i - 1) + (IndexIn(SubSeq(name, i, i), HexChars) - 1)

\* the code unit of a character
CodeUnit(c) ==
    IF IndexIn(c, AsciiChars) > 0 THEN 31 + IndexIn(c, AsciiChars)
    ELSE IF Len(c) > 1 THEN HexValue(c, Len(c))
    ELSE IF IndexIn(c, Latin1Chars) > 0 THEN 159 + IndexIn(c, Latin1Chars)
    ELSE IF IndexIn(c, ControlChars) > 0 THEN IndexIn(c, ControlChars)
    ELSE 126 + IndexIn(c, C1Chars)

IsHighSurrogate(u) == 55296 <= u /\ u <= 56319
IsLowSurrogate(u) == 56320 <= u /\ u <= 57343

\* the code points of a text as the string iterator gives them (for...of,
\* spread): a high surrogate followed by a low one is one item of two code
\* units, every other code unit (a lone surrogate too) an item of its own
RECURSIVE CodePoints(_, _)
CodePoints(s, k) ==
    IF k > Len(s) THEN <<>>
    ELSE IF k < Len(s) /\ IsHighSurrogate(CodeUnit(s[k])) /\ IsLowSurrogate(CodeUnit(s[k + 1]))
    THEN <<SubSeq(s, k, k + 1)>> \o CodePoints(s, k + 2)
    ELSE <<SubSeq(s, k, k)>> \o CodePoints(s, k + 1)

----------------------------------------------------------------------------
(* Payloads.  A payload is [kind, date, sessions]: kind "null" is the JSON *)
(* value null; sessions is [kind, entries] with kind "absent", "null" or   *)
(* "map", the entries [key, val] in insertion order.  A session's value is *)
(* [kind, length, items]: kind "array" (items the records), "string"      *)
(* (items the strings it iterates as) or "null"; length is its `length`.   *)

ArrayOf(rows) == [kind |-> "array", length |-> Len(rows), items |-> rows]
NullRows == [kind |-> "null", length |-> 0, items |-> <<>>]

\* a string as a record: its own entries are its code units under their
\* indices "0", "1", ...
StringRow(t) == [j \in 1..Len(t) |-> [k |-> Decimal(j - 1), v |-> Str(<<t[j]>>)]]

\* a primitive string iterated by for...of: one item per code point (a
\* character beyond U+FFFF is one item of two code units), while its length
\* counts code units
StringRows(s) ==
    LET points == CodePoints(s, 1)
    IN  [kind |-> "string", length |-> Len(s),
         items |-> [i \in 1..Len(points) |-> StringRow(points[i])]]

\* `for (const row of rows)` throws a TypeError unless rows is iterable
Iterable(val) == val.kind \in {"array", "string"}

\* Object.entries(data.sessions || {})
SessionEntries(data) == IF data.sessions.kind = "map" THEN data.sessions.entries ELSE <<>>

Payload(date, entries) ==
    [kind |-> "object", date |-> date, sessions |-> [kind |-> "map", entries |-> entries]]

----------------------------------------------------------------------------
(* app.js: buildTable, lines 135-210 *)

AppScoreStrong == 9

\* The message of an error the engine raises is the engine's text.  These are
\* the texts of V8 (Chrome, Node.js), which names the expression of the
\* source that failed: reading `sessions` of null (app.js lines 157, 218),
\* `for (const row of rows)` over a value that is not iterable (app.js lines
\* 158, 222, nakshatra_rationale.js lines 130, 255), and the calls of
\* toLowerCase / toUpperCase on a number (app.js lines 161, 162, 223)
M_NullSessions == <<"C","a","n","n","o","t"," ","r","e","a","d"," ","p","r","o","p","e",
                    "r","t","i","e","s"," ","o","f"," ","n","u","l","l"," ","(","r","e",
                    "a","d","i","n","g"," ","'","s","e","s","s","i","o","n","s","'",")">>
M_RowsNotIterable == <<"r","o","w","s"," ","i","s"," ","n","o","t"," ","i","t","e","r",
                       "a","b","l","e">>
M_NoToLowerCase == <<"(","r","o","w",".","a","s","t","r","o","_","b","i","a","s"," ","|",
                     "|"," ","r","o","w",".","a","s","t","r","o","l","o","g","i","c","a",
                     "l","_","b","i","a","s"," ","|","|"," ","dquote","dquote",")",".",
                     "t","o","L","o","w","e","r","C","a","s","e"," ","i","s"," ","n","o",
                     "t"," ","a"," ","f","u","n","c","t","i","o","n">>
M_NoToUpperCase == <<"(","r","o","w",".","t","r","a","d","e","_","r","e","c","o","m","m",
                     "e","n","d","a","t","i","o","n"," ","|","|"," ","dquote","dquote",
                     ")",".","t","o","U","p","p","e","r","C","a","s","e"," ","i","s"," ",
                     "n","o","t"," ","a"," ","f","u","n","c","t","i","o","n">>


\* `(a || b || "").toLowerCase()` raises a TypeError when the chosen value
\* is a (non-zero) number: numbers have no toLowerCase / toUpperCase
AppBiasValue(row) == Or(Or(Get(row, K_astro_bias), Get(row, K_astrological_bias)), Str(<<>>))
AppRecValue(row) == Or(Get(row, K_trade_recommendation), Str(<<>>))

\* lines 161-162: whether building the row raises, and the error's message
\* (line 161 is evaluated first)
AppRowThrows(row) == AppBiasValue(row).t # "str" \/ AppRecValue(row).t # "str"
AppRowError(row) == IF AppBiasValue(row).t # "str" THEN M_NoToLowerCase ELSE M_NoToUpperCase

\* lines 166-175
AppBiasClass(biasText) ==
    IF includes(biasText, T_strong) /\ includes(biasText, T_bull) THEN "bias-strong-bull"
    ELSE IF includes(biasText, T_bull) THEN "bias-bull"
    ELSE IF includes(biasText, T_strong) /\ includes(biasText, T_bear) THEN "bias-strong-bear"
    ELSE IF includes(biasText, T_bear) THEN "bias-bear"
    ELSE ""

\* lines 177-182
AppRecClass(recText) ==
    IF includes(recText, T_STRONG_BUY) THEN "rec-strong-buy"
    ELSE IF includes(recText, T_BUY) THEN "rec-buy"
    ELSE IF includes(recText, T_STRONG_SELL) THEN "rec-strong-sell"
    ELSE IF includes(recText, T_SELL) THEN "rec-sell"
    ELSE ""

\* lines 158-202 for one row that does not raise: the classes and the cells
\* Session, TF, Astro Bias, Recommendation, Position %
AppRow(sessKey, row, timeframe) ==
    LET biasText == toLowerCase(AppBiasValue(row).s)
        recText == toUpperCase(AppRecValue(row).s)
        score == parseFloat(Nullish(Nullish(Get(row, K_gold_signal_score),
                                            Get(row, K_base_score)), Num(0)))
        pos == Nullish(Get(row, K_position_size_percentage), Str(<<>>))
    IN  [sess |-> toUpperCase(sessKey),
         tf |-> StringOf(Or(Get(row, K_timeframe), Str(timeframe))),
         bias |-> StringOf(AppBiasValue(row)),
         rec |-> StringOf(AppRecValue(row)),
         pos |-> StringOf(pos),
         biasClass |-> AppBiasClass(biasText),
         recClass |-> AppRecClass(recText),
         scoreClass |-> IF AtLeast(score, AppScoreStrong) THEN "score-strong" ELSE "",
         posClass |-> IF pos = Str(T_100pct) \/ pos = Num(100) THEN "pos-100" ELSE ""]

\* the inner loop (lines 158-203) over one session's items, from item j:
\* the rows appended to tbody, and whether the loop raised
RECURSIVE AppSessionRows(_, _, _, _)
AppSessionRows(sessKey, items, j, timeframe) ==
    IF j > Len(items) THEN [threw |-> FALSE, msg |-> <<>>, rows |-> <<>>]
    ELSE IF AppRowThrows(items[j])
    THEN [threw |-> TRUE, msg |-> AppRowError(items[j]), rows |-> <<>>]
    ELSE LET rest == AppSessionRows(sessKey, items, j + 1, timeframe)
         IN  [threw |-> rest.threw, msg |-> rest.msg,
              rows |-> <<AppRow(sessKey, items[j], timeframe)>> \o rest.rows]

\* the outer loop (line 157) from session i
RECURSIVE AppTableFrom(_, _, _)
AppTableFrom(entries, i, timeframe) ==
    IF i > Len(entries) THEN [threw |-> FALSE, msg |-> <<>>, rows |-> <<>>]
    ELSE IF ~Iterable(entries[i].val)
    THEN [threw |-> TRUE, msg |-> M_RowsNotIterable, rows |-> <<>>]
    ELSE LET here == AppSessionRows(entries[i].key, entries[i].val.items, 1, timeframe)
         IN  IF here.threw THEN here
             ELSE LET rest == AppTableFrom(entries, i + 1, timeframe)
                  IN  [threw |-> rest.threw, msg |-> rest.msg,
                       rows |-> here.rows \o rest.rows]

\* buildTable(data, timeframe): data.sessions raises when data is null; the
\* table is built detached, so a raise leaves nothing of it anywhere
buildTable(data, timeframe) ==
    IF data.kind = "null" THEN [threw |-> TRUE, msg |-> M_NullSessions, rows |-> <<>>]
    ELSE LET t == AppTableFrom(SessionEntries(data), 1, timeframe)
         IN  IF t.threw THEN [threw |-> TRUE, msg |-> t.msg, rows |-> <<>>] ELSE t

----------------------------------------------------------------------------
(* app.js: buildSummary, lines 213-249 *)

AppZero == [buy |-> 0, strongBuy |-> 0, sell |-> 0, strongSell |-> 0, total |-> 0]

\* lines 223-228 for one row that does not raise
AppTally(s, row) ==
    LET rec == toUpperCase(AppRecValue(row).s)
        t == [s EXCEPT !.total = @ + 1]
    IN  IF includes(rec, T_STRONG_BUY) THEN [t EXCEPT !.strongBuy = @ + 1]
        ELSE IF includes(rec, T_BUY) THEN [t EXCEPT !.buy = @ + 1]
        ELSE IF includes(rec, T_STRONG_SELL) THEN [t EXCEPT !.strongSell = @ + 1]
        ELSE IF includes(rec, T_SELL) THEN [t EXCEPT !.sell = @ + 1]
        ELSE t

\* the inner loop (lines 222-229) from item j with the counts s
RECURSIVE AppSessionStats(_, _, _)
AppSessionStats(items, j, s) ==
    IF j > Len(items) THEN [threw |-> FALSE, msg |-> <<>>, s |-> s]
    ELSE IF AppRecValue(items[j]).t # "str"
    THEN [threw |-> TRUE, msg |-> M_NoToUpperCase, s |-> s]
    ELSE AppSessionStats(items, j + 1, AppTally(s, items[j]))

\* the guard `if (!stats[sessKey])` (app.js line 219, nakshatra_rationale.js
\* line 252).  stats is a plain object and the session keys of a payload are
\* pairwise distinct, so stats has no own entry for sessKey yet and
\* stats[sessKey] is what the prototype chain gives: the guard lets a new
\* entry be made unless sessKey names a property inherited from
\* Object.prototype.
StartsStats(sessKey) == ~Truthy(Get(<<>>, sessKey))

\* the outer loop (lines 218-230): a stats entry for each session key that
\* passes the guard, in key order.  For a key that does not, the rows are
\* still read (and may raise), their counts go to the inherited function or
\* to Object.prototype as NaN, and stats gets no entry.
RECURSIVE AppStatsFrom(_, _)
AppStatsFrom(entries, i) ==
    IF i > Len(entries) THEN [threw |-> FALSE, msg |-> <<>>, stats |-> <<>>]
    ELSE IF ~Iterable(entries[i].val)
    THEN [threw |-> TRUE, msg |-> M_RowsNotIterable, stats |-> <<>>]
    ELSE LET here == AppSessionStats(entries[i].val.items, 1, AppZero)
         IN  IF here.threw THEN [threw |-> TRUE, msg |-> here.msg, stats |-> <<>>]
             ELSE LET rest == AppStatsFrom(entries, i + 1)
                  IN  [threw |-> rest.threw, msg |-> rest.msg,
                       stats |-> IF StartsStats(entries[i].key)
                                 THEN <<[key |-> entries[i].key, s |-> here.s]>> \o rest.stats
                                 ELSE rest.stats]

\* a pill is [kind, sess, tf, counts]: counts the labelled numbers of its
\* text, in the order the text gives them
NoRowsPill == [kind |-> "nodata", sess |-> <<>>, tf |-> <<>>, counts |-> <<>>]

\* lines 232-246: one pill per stats entry, or the placeholder pill
AppPills(stats, timeframe) ==
    IF Len(stats) = 0 THEN <<NoRowsPill>>
    ELSE [i \in 1..Len(stats) |->
            [kind |-> "stats", sess |-> toUpperCase(stats[i].key), tf |-> timeframe,
             counts |-> << [label |-> "SB", n |-> stats[i].s.strongBuy],
                           [label |-> "B", n |-> stats[i].s.buy],
                           [label |-> "S", n |-> stats[i].s.sell],
                           [label |-> "SS", n |-> stats[i].s.strongSell],
                           [label |-> "n", n |-> stats[i].s.total] >>]]

\* buildSummary(data, timeframe) of app.js
buildSummaryApp(data, timeframe) ==
    IF data.kind = "null" THEN [threw |-> TRUE, msg |-> M_NullSessions, pills |-> <<>>]
    ELSE LET st == AppStatsFrom(SessionEntries(data), 1)
         IN  IF st.threw THEN [threw |-> TRUE, msg |-> st.msg, pills |-> <<>>]
             ELSE [threw |-> FALSE, msg |-> <<>>, pills |-> AppPills(st.stats, timeframe)]

----------------------------------------------------------------------------
(* nakshatra_rationale.js: buildNakshatraRows, lines 123-241 *)

NakScoreStrong == 8

\* lines 168-172 and 256-260
NakBiasRaw(row) == pickField(row, <<K_nakshatra_bias>>, <<T_bias, T_direction>>, Str(<<>>))

\* String(biasRaw || "").toLowerCase(), lines 202 and 261
NakBiasLower(row) == toLowerCase(StringOf(Or(NakBiasRaw(row), Str(<<>>))))

\* lines 203-205: two independent ifs, the second overwriting the first
NakDirClass(biasLower) ==
    LET c1 == IF includes(biasLower, T_bull) THEN "bias-bull" ELSE ""
    IN  IF includes(biasLower, T_bear) THEN "bias-bear" ELSE c1

\* lines 208-214
NakQualClass(qualityLower) ==
    IF includes(qualityLower, T_soft) \/ includes(qualityLower, T_mridu) THEN "qual-soft"
    ELSE IF includes(qualityLower, T_sharp) \/ includes(qualityLower, T_tikshna) THEN "qual-sharp"
    ELSE ""

\* lines 136-238 for one row: the classes, the cells Session and TF, and the
\* bias text String(biasRaw || "") of line 202 (the Bias cell shows it, or an
\* en dash when it is empty)
NakRow(sessKey, row, timeframe) ==
    LET biasLower == NakBiasLower(row)
        quality == pickField(row, <<K_nakshatra_quality>>, <<T_quality, T_guna, T_nature>>, Str(<<>>))
        scoreVal == parseFloat(pickField(row, <<K_nakshatra_score, K_nakshatra_bullish_score>>,
                                         <<T_score>>, Num(0)))
    IN  [sess |-> toUpperCase(sessKey),
         tf |-> StringOf(Or(Get(row, K_timeframe), Str(timeframe))),
         bias |-> StringOf(Or(NakBiasRaw(row), Str(<<>>))),
         dirClass |-> NakDirClass(biasLower),
         strong |-> includes(biasLower, T_strong),
         qualClass |-> NakQualClass(toLowerCase(StringOf(Or(quality, Str(<<>>))))),
         scoreClass |-> IF IsFinite(scoreVal) /\ AtLeast(scoreVal, NakScoreStrong)
                        THEN "nak-score-strong" ELSE ""]

\* the loops of lines 129-240 from session i: the rows appended to the live
\* #nakBody before the loop ended or raised
RECURSIVE NakRowsFrom(_, _, _)
NakRowsFrom(entries, i, timeframe) ==
    IF i > Len(entries) THEN [threw |-> FALSE, msg |-> <<>>, rows |-> <<>>]
    ELSE IF ~Iterable(entries[i].val)
    THEN [threw |-> TRUE, msg |-> M_RowsNotIterable, rows |-> <<>>]
    ELSE LET items == entries[i].val.items
             here == [j \in 1..Len(items) |-> NakRow(entries[i].key, items[j], timeframe)]
             rest == NakRowsFrom(entries, i + 1, timeframe)
         IN  [threw |-> rest.threw, msg |-> rest.msg, rows |-> here \o rest.rows]

\* buildNakshatraRows(data, timeframe): #nakBody is emptied (line 125) and
\* the rows are appended to it one by one (line 238)
buildNakshatraRows(data, timeframe) ==
    IF data.kind = "null" THEN [threw |-> TRUE, msg |-> M_NullSessions, rows |-> <<>>]
    ELSE NakRowsFrom(SessionEntries(data), 1, timeframe)

----------------------------------------------------------------------------
(* nakshatra_rationale.js: buildSummary, lines 245-298 *)

NakZero == [bull |-> 0, bear |-> 0, neutral |-> 0, strong |-> 0, total |-> 0]

\* the direction bucket with the empty bias skipped instead of counted neutral
NakBucketSkipEmpty(bias) ==
    IF Len(bias) = 0 THEN "none"
    ELSE IF includes(bias, T_bull) THEN "bull"
    ELSE IF includes(bias, T_bear) THEN "bear"
    ELSE "neutral"

\* lines 264-272: the direction bucket of a lower-cased bias text
NakBucket(bias) ==
    IF Len(bias) = 0 THEN "neutral"
    ELSE IF includes(bias, T_bull) THEN "bull"
    ELSE IF includes(bias, T_bear) THEN "bear"
    ELSE "neutral"

\* lines 256-276 for one row
NakTally(s, row) ==
    LET bias == NakBiasLower(row)
        b == NakBucket(bias)
        t == [s EXCEPT !.total = @ + 1,
                       !.bull = IF b = "bull" THEN @ + 1 ELSE @,
                       !.bear = IF b = "bear" THEN @ + 1 ELSE @,
                       !.neutral = IF b = "neutral" THEN @ + 1 ELSE @]
    IN  IF includes(bias, T_strong) THEN [t EXCEPT !.strong = @ + 1] ELSE t

RECURSIVE NakSessionStats(_, _, _)
NakSessionStats(items, j, s) ==
    IF j > Len(items) THEN s ELSE NakSessionStats(items, j + 1, NakTally(s, items[j]))

\* the loops of lines 251-278 from session i: a stats entry for each session
\* key that passes the guard of line 252
RECURSIVE NakStatsFrom(_, _)
NakStatsFrom(entries, i) ==
    IF i > Len(entries) THEN [threw |-> FALSE, msg |-> <<>>, stats |-> <<>>]
    ELSE IF ~Iterable(entries[i].val)
    THEN [threw |-> TRUE, msg |-> M_RowsNotIterable, stats |-> <<>>]
    ELSE LET rest == NakStatsFrom(entries, i + 1)
         IN  [threw |-> rest.threw, msg |-> rest.msg,
              stats |-> IF StartsStats(entries[i].key)
                        THEN <<[key |-> entries[i].key,
                                s |-> NakSessionStats(entries[i].val.items, 1, NakZero)]>>
                             \o rest.stats
                        ELSE rest.stats]

\* lines 280-297
NakPills(stats, timeframe) ==
    IF Len(stats) = 0 THEN <<NoRowsPill>>
    ELSE [i \in 1..Len(stats) |->
            [kind |-> "stats", sess |-> toUpperCase(stats[i].key), tf |-> timeframe,
             counts |-> << [label |-> "Bull", n |-> stats[i].s.bull],
                           [label |-> "Bear", n |-> stats[i].s.bear],
                           [label |-> "Neutral", n |-> stats[i].s.neutral],
                           [label |-> "Strong tags", n |-> stats[i].s.strong],
                           [label |-> "n", n |-> stats[i].s.total] >>]]

\* buildSummary(data, timeframe) of nakshatra_rationale.js: #summaryRow is
\* emptied first (line 247) and the pills are appended after the loops
buildSummaryNak(data, timeframe) ==
    LET st == IF data.kind = "null"
              THEN [threw |-> TRUE, msg |-> M_NullSessions, stats |-> <<>>]
              ELSE NakStatsFrom(SessionEntries(data), 1)
    IN  IF st.threw THEN [threw |-> TRUE, msg |-> st.msg, pills |-> <<>>]
        ELSE [threw |-> FALSE, msg |-> <<>>, pills |-> NakPills(st.stats, timeframe)]

----------------------------------------------------------------------------
(* The pickField harness: one call of pickField on a record drawn from a   *)
(* bounded set, with the argument lists of the call sites.                 *)

K_Bias_Hint == <<"B","i","a","s","_","H","i","n","t">>
K_note == <<"n","o","t","e">>
T_SCORE == <<"S","C","O","R","E">>
T_na == <<"n","/","a">>

PickKeys == {K_nakshatra_bias, K_Bias_Hint, K_nakshatra_score,
             K_nakshatra_bullish_score, K_base_score, K_note, N_constructor}
PickValues == {Null, Str(<<>>), Num(0), Str(T_bull), Str(T_bear)}

\* the objects with at most n entries: distinct keys, any entry order
RowsUpTo(n) ==
    UNION { { r \in [1..m -> [k : PickKeys, v : PickValues]] :
                \A i, j \in 1..m : i # j => r[i].k # r[j].k } : m \in 0..n }

\* argument lists: the bias call (lines 168-172), the score call (lines 174-179),
\* the bias call with its fuzzy parts in the other order, a call with
\* upper-case fuzzy parts, no exact key and a fallback no record holds, a
\* call whose first exact key names a property every object inherits, and
\* the bias call of buildSummary (lines 256-260), which leaves the fallback out
PickCalls ==
    { [exactKeys |-> <<K_nakshatra_bias>>, fuzzyParts |-> <<T_bias, T_direction>>,
       fallback |-> Str(<<>>)],
      [exactKeys |-> <<K_nakshatra_score, K_nakshatra_bullish_score>>,
       fuzzyParts |-> <<T_score>>, fallback |-> Num(0)],
      [exactKeys |-> <<K_nakshatra_bias>>, fuzzyParts |-> <<T_direction, T_bias>>,
       fallback |-> Str(T_na)],
      [exactKeys |-> <<>>, fuzzyParts |-> <<T_SCORE, T_bias>>, fallback |-> Str(T_na)],
      [exactKeys |-> <<N_constructor, K_nakshatra_bias>>, fuzzyParts |-> <<T_bias>>,
       fallback |-> Str(T_na)],
      [exactKeys |-> <<K_nakshatra_bias>>, fuzzyParts |-> <<T_bias, T_direction>>,
       fallback |-> Undef] }

PfIdle == [row |-> <<>>, exactKeys |-> <<>>, fuzzyParts |-> <<>>,
           fallback |-> Undef, done |-> FALSE, out |-> Undef]
RdIdle == [data |-> [kind |-> "null", date |-> Null,
                     sessions |-> [kind |-> "absent", entries |-> <<>>]],
           tf |-> <<>>, done |-> FALSE, view |-> "", raised |-> FALSE,
           table |-> [threw |-> FALSE, msg |-> <<>>, rows |-> <<>>],
           summary |-> [threw |-> FALSE, msg |-> <<>>, pills |-> <<>>]]

LoaderIdle ==
    /\ page = "none"
    /\ form = <<>>
    /\ status = <<>>
    /\ container = <<>>
    /\ nakBody = <<>>
    /\ summaryRow = <<>>
    /\ csvHref = <<>>
    /\ inflight = {}
    /\ reading = {}
    /\ issued = 0
    /\ fetches = <<>>
    /\ burst = 0
    /\ ended = 0
    /\ last = <<>>

loaderVars == <<page, form, status, container, nakBody, summaryRow, csvHref,
                inflight, reading, issued, fetches, burst, ended, last>>

InitPick ==
    /\ \E row \in RowsUpTo(MaxEntries), c \in PickCalls :
          pf = [row |-> row, exactKeys |-> c.exactKeys, fuzzyParts |-> c.fuzzyParts,
                fallback |-> c.fallback, done |-> FALSE, out |-> Undef]
    /\ rd = RdIdle
    /\ LoaderIdle

CallPickField ==
    /\ ~pf.done
    /\ pf' = [pf EXCEPT !.done = TRUE,
                        !.out = pickField(pf.row, pf.exactKeys, pf.fuzzyParts, pf.fallback)]
    /\ UNCHANGED <<rd, loaderVars>>

NextPick == CallPickField

SpecPick == InitPick /\ [][NextPick]_vars

----------------------------------------------------------------------------
(* The render harness: the builders of either view applied to one payload  *)
(* drawn from a bounded set.                                               *)

T_Strong_Bullish == <<"S","t","r","o","n","g"," ","B","u","l","l","i","s","h">>
T_Strong_Bull == <<"S","t","r","o","n","g"," ","B","u","l","l">>
T_STRONG_BUY_SIGNAL == <<"S","T","R","O","N","G"," ","B","U","Y"," ","S","I","G","N","A","L">>
T_Bearish_trend == <<"B","e","a","r","i","s","h"," ","t","r","e","n","d">>
T_Strong_Sell == <<"S","t","r","o","n","g"," ","S","e","l","l">>
T_bull_to_bear == <<"b","u","l","l","-","t","o","-","b","e","a","r">>
T_STRONG_SELL_NOT_BUY == <<"S","T","R","O","N","G"," ","S","E","L","L",","," ","N","O","T"," ","B","U","Y">>
T_hold == <<"h","o","l","d">>
T_STRONG == <<"S","T","R","O","N","G">>
T_sell == <<"s","e","l","l">>
T_buy == <<"b","u","y">>
T_8_5 == <<"8",".","5">>
T_mild_bull == <<"m","i","l","d"," ","b","u","l","l">>
T_Sharp_Tikshna == <<"S","h","a","r","p"," ","(","T","i","k","s","h","n","a",")">>
T_1e1 == <<"1","e","1">>
T_BEAR_accented == <<"B","É","A","R"," ","b","e","a","r">>
T_sharp_s_ell == <<"ß","e","l","l">>
K_bias_note == <<"b","i","a","s","_","n","o","t","e">>
T_asia == <<"a","s","i","a">>
T_london == <<"l","o","n","d","o","n">>
T_1h == <<"1","h">>
T_4h == <<"4","h">>

E(k, v) == [k |-> k, v |-> v]

R_strongBull == << E(K_nakshatra_bias, Str(T_Strong_Bullish)),
                   E(K_astro_bias, Str(T_Strong_Bull)),
                   E(K_trade_recommendation, Str(T_STRONG_BUY_SIGNAL)),
                   E(K_nakshatra_score, Str(T_8_5)),
                   E(K_gold_signal_score, Num(9)) >>
R_bear == << E(K_astrological_bias, Str(T_Bearish_trend)),
             E(K_trade_recommendation, Str(T_Strong_Sell)),
             E(K_nakshatra_quality, Str(T_Sharp_Tikshna)) >>
R_both == << E(K_nakshatra_bias, Str(T_bull_to_bear)),
             E(K_trade_recommendation, Str(T_STRONG_SELL_NOT_BUY)) >>
R_hold == << E(T_direction, Str(T_STRONG)),
             E(K_trade_recommendation, Str(T_hold)) >>
R_numeric == << E(K_nakshatra_bias, Num(0)),
                E(K_astro_bias, Num(7)),
                E(K_trade_recommendation, Num(5)) >>
R_buy == << E(K_trade_recommendation, Str(T_buy)),
            E(K_position_size_percentage, Num(100)),
            E(K_timeframe, Str(T_4h)) >>
R_sell == << E(K_nakshatra_bias, Str(<<>>)),
             E(K_bias_note, Str(T_mild_bull)),
             E(K_trade_recommendation, Str(T_sell)) >>

\* scores in exponent notation and as Infinity, a bias with a Latin-1
\* capital, a recommendation whose upper-casing grows by a character
R_exotic == << E(K_nakshatra_bias, Str(T_BEAR_accented)),
               E(K_nakshatra_score, Str(T_1e1)),
               E(K_gold_signal_score, Str(T_Infinity)),
               E(K_trade_recommendation, Str(T_sharp_s_ell)) >>

RenderRecords == {R_strongBull, R_bear, R_both, R_hold, R_numeric, R_buy, R_sell, R_exotic}

\* session keys: two ordinary ones and one that names a property every
\* object inherits
SessionKeys == {T_asia, T_london, N_constructor}
SessionKeyPairs == { <<T_asia, T_london>>, <<T_london, T_asia>>,
                     <<N_constructor, T_asia>>, <<T_asia, N_constructor>> }

\* the session mappings of one or two keys, in either order, whose record
\* sequences hold at most n records together
SessionMapsUpTo(n) ==
    {<<>>}
    \cup { <<[key |-> k, val |-> ArrayOf(r)]>> :
             k \in SessionKeys, r \in UNION { [1..m -> RenderRecords] : m \in 0..n } }
    \cup UNION { UNION { { <<[key |-> ks[1], val |-> ArrayOf(r1)],
                             [key |-> ks[2], val |-> ArrayOf(r2)]>> :
                            r1 \in [1..m1 -> RenderRecords], r2 \in [1..m2 -> RenderRecords],
                            ks \in SessionKeyPairs } :
                        m2 \in 0..(n - m1) } : m1 \in 0..n }

T_date1 == <<"2","0","2","5","-","0","1","-","0","2">>
T_date2 == <<"2","0","2","5","-","0","1","-","0","3">>

InitRender ==
    /\ \E m \in SessionMapsUpTo(MaxRows) :
          rd = [RdIdle EXCEPT !.data = Payload(Str(T_date1), m), !.tf = T_1h]
    /\ pf = PfIdle
    /\ LoaderIdle

\* a summary builder that was not called: nothing raised by it, no pill
NotCalled == [threw |-> FALSE, msg |-> <<>>, pills |-> <<>>]

\* the builders of app.js on the payload, as loadReport calls them (lines
\* 102-106): buildSummary is called only when buildTable returned
RenderReport ==
    /\ ~rd.done
    /\ LET t == buildTable(rd.data, rd.tf)
           sm == IF t.threw THEN NotCalled ELSE buildSummaryApp(rd.data, rd.tf)
       IN  rd' = [rd EXCEPT !.done = TRUE, !.view = "app",
                            !.raised = t.threw \/ sm.threw,
                            !.table = t, !.summary = sm]
    /\ UNCHANGED <<pf, loaderVars>>

\* the builders of nakshatra_rationale.js on the payload, as loadNakshatra
\* calls them (lines 90-91): buildSummary is called only when
\* buildNakshatraRows returned; the rows it appended before raising stay
RenderNakshatra ==
    /\ ~rd.done
    /\ LET r == buildNakshatraRows(rd.data, rd.tf)
           sm == IF r.threw THEN NotCalled ELSE buildSummaryNak(rd.data, rd.tf)
       IN  rd' = [rd EXCEPT !.done = TRUE, !.view = "nakshatra",
                            !.raised = r.threw \/ sm.threw,
                            !.table = r, !.summary = sm]
    /\ UNCHANGED <<pf, loaderVars>>

NextRender == RenderReport \/ RenderNakshatra

SpecRender == InitRender /\ [][NextRender]_vars

----------------------------------------------------------------------------
(* encodeURIComponent *)

\* the marks encodeURIComponent leaves as they are
UnreservedMarks == {"-", "_", ".", "!", "~", "*", "(", ")", "'"}

\* the characters encodeURIComponent leaves as they are: letters, digits and
\* the unreserved marks
Unreserved(c) ==
    IndexIn(c, UpperChars) > 0 \/ IndexIn(c, LowerChars) > 0 \/ IsDigit(c)
       \/ c \in UnreservedMarks

\* "%" and the two hex digits of a byte
PercentByte(b) == <<"%", HexChars[(b \div 16) + 1], HexChars[(b % 16) + 1]>>

\* the escaped bytes of the UTF-8 form of code point v
Utf8Escaped(v) ==
    IF v < 128 THEN PercentByte(v)
    ELSE IF v < 2048 THEN PercentByte(192 + (v \div 64)) \o PercentByte(128 + (v % 64))
    ELSE IF v < 65536
    THEN PercentByte(224 + (v \div 4096)) \o PercentByte(128 + ((v \div 64) % 64))
            \o PercentByte(128 + (v % 64))
    ELSE PercentByte(240 + (v \div 262144)) \o PercentByte(128 + ((v \div 4096) % 64))
            \o PercentByte(128 + ((v \div 64) % 64)) \o PercentByte(128 + (v % 64))

\* the code point of a surrogate pair
PairValue(hi, lo) == (hi - 55296) * 1024 + (lo - 56320) + 65536

\* text put in front of what the rest of the encoding gave
Before(text, rest) == [threw |-> rest.threw, text |-> text \o rest.text]

\* encodeURIComponent from the k-th character of s on: the encoded text, or
\* threw when s holds a surrogate that is not half of a pair (URIError)
RECURSIVE EncodeFrom(_, _)
EncodeFrom(s, k) ==
    IF k > Len(s) THEN [threw |-> FALSE, text |-> <<>>]
    ELSE IF Unreserved(s[k]) THEN Before(<<s[k]>>, EncodeFrom(s, k + 1))
    ELSE IF IsLowSurrogate(CodeUnit(s[k])) THEN [threw |-> TRUE, text |-> <<>>]
    ELSE IF ~IsHighSurrogate(CodeUnit(s[k]))
    THEN Before(Utf8Escaped(CodeUnit(s[k])), EncodeFrom(s, k + 1))
    ELSE IF k = Len(s) THEN [threw |-> TRUE, text |-> <<>>]
    ELSE IF ~IsLowSurrogate(CodeUnit(s[k + 1])) THEN [threw |-> TRUE, text |-> <<>>]
    ELSE Before(Utf8Escaped(PairValue(CodeUnit(s[k]), CodeUnit(s[k + 1]))),
                EncodeFrom(s, k + 2))

encodeURIComponent(s) == EncodeFrom(s, 1)

T_api_reports == <<"/","a","p","i","/","r","e","p","o","r","t","s","/">>
T_q_session == <<"?","s","e","s","s","i","o","n","=">>
T_a_client_tz == <<"&","c","l","i","e","n","t","_","t","z","=">>
T_a_timeframe == <<"&","t","i","m","e","f","r","a","m","e","=">>
T_csv == <<"/","c","s","v">>

\* whether building the url raises (app.js lines 92-96,
\* nakshatra_rationale.js lines 73-77): one of the three values cannot be
\* encoded
UrlRaises(session, clientTz, timeframe) ==
    \/ encodeURIComponent(session).threw
    \/ encodeURIComponent(clientTz).threw
    \/ encodeURIComponent(timeframe).threw

\* app.js lines 92-96, nakshatra_rationale.js lines 73-77
ReportUrl(date, session, clientTz, timeframe) ==
    T_api_reports \o date \o T_q_session \o encodeURIComponent(session).text
        \o T_a_client_tz \o encodeURIComponent(clientTz).text
        \o T_a_timeframe \o encodeURIComponent(timeframe).text

\* a csv link that leaves its query values as typed
CsvUrlUnencoded(date, session, clientTz, timeframe) ==
    T_api_reports \o date \o T_csv \o T_q_session \o session
        \o T_a_client_tz \o clientTz
        \o T_a_timeframe \o timeframe

\* app.js lines 122-126, nakshatra_rationale.js lines 107-111
CsvUrl(date, session, clientTz, timeframe) ==
    T_api_reports \o date \o T_csv \o T_q_session \o encodeURIComponent(session).text
        \o T_a_client_tz \o encodeURIComponent(clientTz).text
        \o T_a_timeframe \o encodeURIComponent(timeframe).text

----------------------------------------------------------------------------
(* The pages: form inputs, responses, and the two loaders *)

T_all == <<"a","l","l">>
T_Asia_Tokyo == <<"A","s","i","a","/","T","o","k","y","o">>
T_boom == <<"b","o","o","m">>
\* a text of three code units and two characters, the second beyond U+FFFF
T_a_grin == <<"a","U+D83D","U+DE00">>

\* a client time zone as typed: a Latin-1 letter, a blank, a tab, an em
\* space, and a character beyond U+FFFF (a surrogate pair)
T_tz_typed == <<"É","s","t"," ","\t","U+2003","U+D83D","U+DE00">>
\* a text that holds half of a surrogate pair
T_tz_half == <<"U+D800">>

SliceLen == 200

\* the form as the page shows it after DOMContentLoaded, and the other
\* settings the user may give it (one of them with the date cleared, one
\* with a client time zone that cannot be encoded)
Form0 == [date |-> T_date1, session |-> T_all, timeframe |-> T_1h, clientTz |-> <<>>]
Forms == { Form0,
           [date |-> T_date2, session |-> T_asia, timeframe |-> T_4h, clientTz |-> T_tz_typed],
           [date |-> <<>>, session |-> T_all, timeframe |-> T_1h, clientTz |-> <<>>],
           [date |-> T_date1, session |-> T_all, timeframe |-> T_1h, clientTz |-> T_tz_half] }

NoData == [kind |-> "null", date |-> Undef, sessions |-> [kind |-> "absent", entries |-> <<>>]]

\* The message of a rejected promise is that of the error it rejects with:
\* what the engine or the network stack says when the fetch fails, when the
\* body's stream breaks off, and when the body is not JSON.  These are the
\* texts of Node.js (its fetch and V8).
M_FetchFailed == <<"f","e","t","c","h"," ","f","a","i","l","e","d">>
M_Terminated == <<"t","e","r","m","i","n","a","t","e","d">>
M_UnexpectedEnd == <<"U","n","e","x","p","e","c","t","e","d"," ","e","n","d"," ","o","f"," ",
                     "J","S","O","N"," ","i","n","p","u","t">>
\* the message of the URIError of encodeURIComponent (V8)
M_URIMalformed == <<"U","R","I"," ","m","a","l","f","o","r","m","e","d">>

\* a response is [kind, code, body, data, msg]:
\*   "reject"  fetch rejected with an error of message msg
\*   "ok"      a 2xx answer whose body was not read yet
\*   "http"    a non-2xx answer with its status code and the body it carries
\*   "notext"  a non-2xx answer whose res.text() rejected with message msg
\*   "json"    a 2xx answer whose res.json() gave the payload data
\*   "nojson"  a 2xx answer whose res.json() rejected with message msg
Reject(msg) == [kind |-> "reject", code |-> 0, body |-> <<>>, data |-> NoData, msg |-> msg]
Ok200 == [kind |-> "ok", code |-> 200, body |-> <<>>, data |-> NoData, msg |-> <<>>]
Http(code, body) == [kind |-> "http", code |-> code, body |-> body, data |-> NoData, msg |-> <<>>]
NoText(code, body, msg) ==
    [kind |-> "notext", code |-> code, body |-> body, data |-> NoData, msg |-> msg]
Json(data) == [kind |-> "json", code |-> 200, body |-> <<>>, data |-> data, msg |-> <<>>]
NoJson(msg) == [kind |-> "nojson", code |-> 200, body |-> <<>>, data |-> NoData, msg |-> msg]

\* a body one character longer than the slice, its last character different
LongBody == [i \in 1..(SliceLen + 1) |-> IF i <= SliceLen THEN "x" ELSE "y"]

P_null == NoData
P_noSessions == [kind |-> "object", date |-> Str(T_date1),
                 sessions |-> [kind |-> "absent", entries |-> <<>>]]
P_sessionsNull == [kind |-> "object", date |-> Str(T_date1),
                   sessions |-> [kind |-> "null", entries |-> <<>>]]
P_empty == Payload(Str(T_date1), <<>>)
P_goodA == Payload(Str(T_date1),
                   <<[key |-> T_asia, val |-> ArrayOf(<<R_strongBull, R_both>>)]>>)
P_goodB == Payload(Str(T_date2),
                   <<[key |-> T_london, val |-> ArrayOf(<<R_bear>>)],
                     [key |-> T_asia, val |-> ArrayOf(<<>>)]>>)
P_laterSessionNull == Payload(Str(T_date1),
                   <<[key |-> T_asia, val |-> ArrayOf(<<R_buy>>)],
                     [key |-> T_london, val |-> NullRows]>>)
P_numericField == Payload(Str(T_date1),
                   <<[key |-> T_asia, val |-> ArrayOf(<<R_sell, R_numeric>>)]>>)
P_stringSession == Payload(Str(T_date1),
                   <<[key |-> T_asia, val |-> StringRows(T_a_grin)]>>)

\* how `await fetch(url)` may settle
FetchOutcomes == { Reject(M_FetchFailed), Http(500, T_boom), Http(404, LongBody), Ok200 }

\* how `await res.json()` may settle on a 2xx answer
JsonOutcomes ==
    { Json(P_null), Json(P_noSessions), Json(P_sessionsNull), Json(P_empty),
      Json(P_goodA), Json(P_goodB), Json(P_laterSessionNull),
      Json(P_numericField), Json(P_stringSession),
      NoJson(M_UnexpectedEnd), NoJson(M_Terminated) }

\* how `await res.text()` may settle on the non-2xx answer resp
TextOutcomes(resp) == { resp, NoText(resp.code, resp.body, M_Terminated) }

M_SelectDate == <<"P","l","e","a","s","e"," ","s","e","l","e","c","t"," ","a"," ","v","a","l","i","d"," ","d","a","t","e",".">>
M_NoSessionData == <<"N","o"," ","s","e","s","s","i","o","n"," ","d","a","t","a"," ","r","e","t","u","r","n","e","d"," ","f","r","o","m"," ","A","P","I",".">>
T_HTTP == <<"H","T","T","P"," ">>
T_colon == <<":"," ">>

\* the status element: its class list (classList.remove at the start of a
\* load, classList.add at its end, so the classes of overlapping loads
\* accumulate) and its text, kept as its kind and its parts
StatusLoading == [cls |-> {}, kind |-> "loading", msg |-> <<>>, date |-> <<>>, tf |-> <<>>, rows |-> 0]
StatusErr(cls, msg) ==
    [cls |-> cls \cup {"error"}, kind |-> "err", msg |-> msg, date |-> <<>>, tf |-> <<>>, rows |-> 0]
StatusOk(cls, date, tf, rows) ==
    [cls |-> cls \cup {"ok"}, kind |-> "ok", msg |-> <<>>, date |-> date, tf |-> tf, rows |-> rows]

\* the locals a load captured before its fetch, with its id and its url (no
\* url when building it raises)
Request(id, f) ==
    [id |-> id, date |-> f.date, session |-> f.session, timeframe |-> f.timeframe,
     clientTz |-> f.clientTz,
     url |-> IF UrlRaises(f.session, f.clientTz, f.timeframe) THEN <<>>
             ELSE ReportUrl(f.date, f.session, f.clientTz, f.timeframe)]

NoResponse == [kind |-> "none", code |-> 0, body |-> <<>>, data |-> NoData, msg |-> <<>>]
Ended(req, resp) == [req |-> req, resp |-> resp]

\* a load suspended at its body read, with the answer it got
Reading(req, resp) == [req |-> req, resp |-> resp]

\* the loads that started and have not ended
Outstanding == inflight \cup { r.req : r \in reading }

RECURSIVE SumLengths(_, _, _)
SumLengths(entries, i, arraysOnly) ==
    IF i > Len(entries) THEN 0
    ELSE (IF entries[i].val.kind = "array" \/ (~arraysOnly /\ entries[i].val.kind = "string")
          THEN entries[i].val.length ELSE 0)
         + SumLengths(entries, i + 1, arraysOnly)

\* app.js lines 108-111: sum of arr.length (reached only when every session
\* value was iterable)
AppTotalRows(data) == SumLengths(SessionEntries(data), 1, FALSE)

\* nakshatra_rationale.js lines 93-96: Array.isArray(rows) ? rows.length : 0
NakTotalRows(data) == SumLengths(SessionEntries(data), 1, TRUE)

\* what Intl.DateTimeFormat().resolvedOptions().timeZone gives on the machine
\* the page runs on (nakshatra_rationale.js lines 33-41): a zone name, or
\* nothing when Intl is missing or throws
TimeZones == {<<>>, T_Asia_Tokyo}

\* the form once DOMContentLoaded has run: app.js sets the date only (lines
\* 8-10); nakshatra_rationale.js also fills the empty client time zone input
\* with the machine's zone (lines 30-41)
InitialForms(pg) ==
    IF pg = "app" THEN {Form0}
    ELSE { [Form0 EXCEPT !.clientTz = tz] : tz \in TimeZones }

Init ==
    /\ pf = PfIdle
    /\ rd = RdIdle
    /\ page \in {"app", "nakshatra"}
    /\ form \in InitialForms(page)
    \* DOMContentLoaded has run: the first load is suspended at its fetch
    /\ status = StatusLoading
    /\ container = <<>>
    /\ nakBody = <<>>
    /\ summaryRow = <<>>
    /\ csvHref = <<>>
    /\ inflight = {Request(1, form)}
    /\ reading = {}
    /\ issued = 1
    /\ fetches = <<1>>
    /\ burst = 1
    /\ ended = 0
    /\ last = Ended(Request(0, Form0), NoResponse)

\* the user edits the form inputs
ChangeForm ==
    /\ \E f \in Forms : f # form /\ form' = f
    /\ UNCHANGED <<pf, rd, page, status, container, nakBody, summaryRow, csvHref,
                   inflight, reading, issued, fetches, burst, ended, last>>

\* loadReport up to `await fetch(url)`, app.js lines 78-98, or to its end
\* when building the url raises (lines 92-96 and 128-132)
LoadReportStart ==
    /\ page = "app"
    /\ issued < MaxLoads
    /\ summaryRow' = <<>>
    /\ container' = <<>>
    /\ issued' = issued + 1
    /\ IF UrlRaises(form.session, form.clientTz, form.timeframe)
       THEN /\ status' = StatusErr({}, M_URIMalformed)
            /\ fetches' = Append(fetches, 0)
            /\ ended' = ended + 1
            /\ last' = Ended(Request(issued + 1, form), NoResponse)
            /\ UNCHANGED <<inflight, burst>>
       ELSE /\ status' = StatusLoading
            /\ fetches' = Append(fetches, 1)
            /\ inflight' = inflight \cup {Request(issued + 1, form)}
            /\ burst' = IF Outstanding = {} THEN 1 ELSE burst + 1
            /\ UNCHANGED <<ended, last>>
    /\ UNCHANGED <<pf, rd, page, form, nakBody, csvHref, reading>>

\* loadReport from the settling of `await fetch(url)` to `await res.json()`,
\* app.js lines 98-100, or to its end when the fetch rejected or the answer
\* is not 2xx (lines 99 and 128-132)
LoadReportFetched ==
    /\ page = "app"
    /\ \E req \in inflight, resp \in FetchOutcomes :
          /\ inflight' = inflight \ {req}
          /\ IF resp.kind = "ok"
             THEN /\ reading' = reading \cup {Reading(req, resp)}
                  /\ UNCHANGED <<status, ended, last>>
             ELSE /\ status' = StatusErr(status.cls,
                                         IF resp.kind = "reject" THEN resp.msg
                                         ELSE T_HTTP \o Decimal(resp.code))
                  /\ ended' = ended + 1
                  /\ last' = Ended(req, resp)
                  /\ UNCHANGED reading
    /\ UNCHANGED <<pf, rd, page, form, container, nakBody, summaryRow, csvHref,
                   issued, fetches, burst>>

\* loadReport from the settling of `await res.json()` on, app.js lines
\* 100-132
LoadReportBody ==
    /\ page = "app"
    /\ \E r \in reading, resp \in JsonOutcomes :
          LET t == buildTable(resp.data, r.req.timeframe)
              sm == buildSummaryApp(resp.data, r.req.timeframe)
          IN  /\ reading' = reading \ {r}
              /\ ended' = ended + 1
              /\ last' = Ended(r.req, resp)
              /\ IF resp.kind = "nojson"
                 THEN /\ status' = StatusErr(status.cls, resp.msg)
                      /\ UNCHANGED <<container, summaryRow, csvHref>>
                 ELSE IF t.threw
                 THEN /\ status' = StatusErr(status.cls, t.msg)
                      /\ UNCHANGED <<container, summaryRow, csvHref>>
                 ELSE IF sm.threw
                 THEN /\ container' = Append(container, t.rows)
                      /\ status' = StatusErr(status.cls, sm.msg)
                      /\ UNCHANGED <<summaryRow, csvHref>>
                 ELSE /\ container' = Append(container, t.rows)
                      /\ summaryRow' = Append(summaryRow, sm.pills)
                      /\ status' = StatusOk(status.cls, StringOf(resp.data.date),
                                            r.req.timeframe, AppTotalRows(resp.data))
                      /\ csvHref' = CsvUrl(r.req.date, r.req.session, r.req.clientTz,
                                           r.req.timeframe)
    /\ UNCHANGED <<pf, rd, page, form, nakBody, inflight, issued, fetches, burst>>

\* loadNakshatra up to `await fetch(url)`, nakshatra_rationale.js lines
\* 50-79, or to its end when the date is empty or building the url raises
\* (lines 69-77 and 113-118)
LoadNakshatraStart ==
    /\ page = "nakshatra"
    /\ issued < MaxLoads
    /\ nakBody' = <<>>
    /\ summaryRow' = <<>>
    /\ issued' = issued + 1
    /\ IF Len(form.date) = 0 \/ UrlRaises(form.session, form.clientTz, form.timeframe)
       THEN /\ status' = StatusErr({}, IF Len(form.date) = 0 THEN M_SelectDate
                                       ELSE M_URIMalformed)
            /\ fetches' = Append(fetches, 0)
            /\ ended' = ended + 1
            /\ last' = Ended(Request(issued + 1, form), NoResponse)
            /\ UNCHANGED <<inflight, burst>>
       ELSE /\ status' = StatusLoading
            /\ fetches' = Append(fetches, 1)
            /\ inflight' = inflight \cup {Request(issued + 1, form)}
            /\ burst' = IF Outstanding = {} THEN 1 ELSE burst + 1
            /\ UNCHANGED <<ended, last>>
    /\ UNCHANGED <<pf, rd, page, form, container, csvHref, reading>>

\* loadNakshatra from the settling of `await fetch(url)` to its body read,
\* `await res.text()` for an answer that is not 2xx (line 81) and
\* `await res.json()` otherwise (line 85), or to its end when the fetch
\* rejected (lines 113-118)
LoadNakshatraFetched ==
    /\ page = "nakshatra"
    /\ \E req \in inflight, resp \in FetchOutcomes :
          /\ inflight' = inflight \ {req}
          /\ IF resp.kind = "reject"
             THEN /\ status' = StatusErr(status.cls, resp.msg)
                  /\ ended' = ended + 1
                  /\ last' = Ended(req, resp)
                  /\ UNCHANGED reading
             ELSE /\ reading' = reading \cup {Reading(req, resp)}
                  /\ UNCHANGED <<status, ended, last>>
    /\ UNCHANGED <<pf, rd, page, form, container, nakBody, summaryRow, csvHref,
                   issued, fetches, burst>>

\* loadNakshatra from the settling of `await res.text()` on,
\* nakshatra_rationale.js lines 81-82 and 113-118
LoadNakshatraText ==
    /\ page = "nakshatra"
    /\ \E r \in reading :
          /\ r.resp.kind = "http"
          /\ \E resp \in TextOutcomes(r.resp) :
                /\ reading' = reading \ {r}
                /\ ended' = ended + 1
                /\ last' = Ended(r.req, resp)
                /\ status' = StatusErr(status.cls,
                                       IF resp.kind = "notext" THEN resp.msg
                                       ELSE T_HTTP \o Decimal(resp.code) \o T_colon
                                               \o slice0(resp.body, SliceLen))
    /\ UNCHANGED <<pf, rd, page, form, container, nakBody, summaryRow, csvHref,
                   inflight, issued, fetches, burst>>

\* loadNakshatra from the settling of `await res.json()` on,
\* nakshatra_rationale.js lines 85-118
LoadNakshatraBody ==
    /\ page = "nakshatra"
    /\ \E r \in reading, resp \in JsonOutcomes :
          LET rw == buildNakshatraRows(resp.data, r.req.timeframe)
              sm == buildSummaryNak(resp.data, r.req.timeframe)
          IN  /\ r.resp.kind = "ok"
              /\ reading' = reading \ {r}
              /\ ended' = ended + 1
              /\ last' = Ended(r.req, resp)
              /\ IF resp.kind = "nojson"
                 THEN /\ status' = StatusErr(status.cls, resp.msg)
                      /\ UNCHANGED <<nakBody, summaryRow, csvHref>>
                 ELSE IF resp.data.kind = "null" \/ resp.data.sessions.kind # "map"
                 THEN /\ status' = StatusErr(status.cls, M_NoSessionData)
                      /\ UNCHANGED <<nakBody, summaryRow, csvHref>>
                 ELSE IF rw.threw
                 THEN /\ nakBody' = rw.rows
                      /\ status' = StatusErr(status.cls, rw.msg)
                      /\ UNCHANGED <<summaryRow, csvHref>>
                 ELSE IF sm.threw
                 THEN /\ nakBody' = rw.rows
                      /\ summaryRow' = <<>>
                      /\ status' = StatusErr(status.cls, sm.msg)
                      /\ UNCHANGED csvHref
                 ELSE /\ nakBody' = rw.rows
                      /\ summaryRow' = sm.pills
                      /\ status' = StatusOk(status.cls, StringOf(resp.data.date),
                                            r.req.timeframe, NakTotalRows(resp.data))
                      /\ csvHref' = CsvUrl(r.req.date, r.req.session, r.req.clientTz,
                                           r.req.timeframe)
    /\ UNCHANGED <<pf, rd, page, form, container, inflight, issued, fetches, burst>>

Next ==
    \/ ChangeForm
    \/ LoadReportStart
    \/ LoadReportFetched
    \/ LoadReportBody
    \/ LoadNakshatraStart
    \/ LoadNakshatraFetched
    \/ LoadNakshatraText
    \/ LoadNakshatraBody

Spec == Init /\ [][Next]_vars

----------------------------------------------------------------------------
(* Claims about the loaders *)

\* C1 (as claimed): when two loads were outstanding together and both have
\* ended, the last of them with success, the display (rows and summary) is
\* exactly what the builders make of the last response, in either view.
C1_LastResponseOnly ==
    (Outstanding = {} /\ burst = 2 /\ last.resp.kind = "json" /\ status.kind = "ok") =>
        IF page = "app"
        THEN /\ container = <<buildTable(last.resp.data, last.req.timeframe).rows>>
             /\ summaryRow = <<buildSummaryApp(last.resp.data, last.req.timeframe).pills>>
        ELSE /\ nakBody = buildNakshatraRows(last.resp.data, last.req.timeframe).rows
             /\ summaryRow = buildSummaryNak(last.resp.data, last.req.timeframe).pills

\* sessions missing, null, or a session key mapped to something that is not
\* a sequence of records
ShapeError(data) ==
    /\ data.kind = "object"
    /\ \/ data.sessions.kind \in {"absent", "null"}
       \/ \E i \in 1..Len(data.sessions.entries) : data.sessions.entries[i].val.kind # "array"

\* C2 (as claimed): a render pass over a payload with a shape error ends in
\* the error status and leaves no row and no summary entry on the display
\* (stated for the page's first load, with no other load issued).
C2_ShapeErrorIsFatal ==
    (issued = 1 /\ ended = 1 /\ last.resp.kind = "json" /\ ShapeError(last.resp.data)) =>
        /\ status.cls = {"error"}
        /\ container = <<>>
        /\ nakBody = <<>>
        /\ summaryRow = <<>>

\* C4 (as claimed): after a non-2xx response (whose body the page could
\* read, where it reads it) the load's status is the error status, its
\* message carries the status code and the first 200 characters of the body,
\* and the load made exactly one fetch.
C4_HttpErrorCarriesCodeAndBody ==
    (last.resp.kind = "http" /\ status.kind # "loading") =>
        /\ status.kind = "err"
        /\ "error" \in status.cls
        /\ includes(status.msg, Decimal(last.resp.code))
        /\ includes(status.msg, slice0(last.resp.body, 200))
        /\ fetches[last.req.id] = 1

\* position of the first "?" of a url, 0 when it has none
RECURSIVE QueryAt(_, _)
QueryAt(url, i) ==
    IF i > Len(url) THEN 0 ELSE IF url[i] = "?" THEN i ELSE QueryAt(url, i + 1)

\* the csv address that belongs to a report url as it was fetched: the same
\* path with "/csv" added, and the same query string character for character
CsvOfReportUrl(url) ==
    LET q == QueryAt(url, 1)
    IN  SubSeq(url, 1, q - 1) \o T_csv \o SubSeq(url, q, Len(url))

\* a step in which a load ends with success
LoadSucceeds == ended' = ended + 1 /\ status'.kind = "ok"

\* C11: a load that ends with success sets the csv link to the address that
\* carries the date and the query string of the url that load itself fetched,
\* whatever the form holds by then and whatever other loads were issued; no
\* other step touches the link, so the link is always that of the load whose
\* successful response was applied last.
C11_CsvLinkFromOwnRequest ==
    [][IF LoadSucceeds
       THEN csvHref' = CsvOfReportUrl(last'.req.url)
       ELSE csvHref' = csvHref]_vars

\* two loads were outstanding together, the form was edited between them, the
\* first-issued load ended last and with success: the link is that of the
\* first request, not of the form as it stands
C11_Witness ==
    /\ Outstanding = {} /\ issued = 2 /\ burst = 2
    /\ last.req.id = 1 /\ status.kind = "ok"
    /\ last.req.session # form.session /\ last.req.timeframe # form.timeframe
    /\ csvHref = CsvOfReportUrl(last.req.url)
    /\ csvHref # CsvOfReportUrl(ReportUrl(form.date, form.session, form.clientTz, form.timeframe))

\* a load whose request carried the typed time zone (a tab, an em space, a
\* surrogate pair) succeeded after the form was edited while it was
\* suspended at its body read: the link carries that load's encoded values
C11_WitnessTyped ==
    /\ status.kind = "ok"
    /\ last.req.clientTz = T_tz_typed
    /\ form.clientTz # T_tz_typed
    /\ csvHref = CsvOfReportUrl(last.req.url)
    /\ includes(csvHref, <<"%","0","9","%","E","2","%","8","0","%","8","3",
                           "%","F","0","%","9","F","%","9","8","%","8","0">>)

\* the sum of the lengths of a sequence of sequences
RECURSIVE TotalLen(_)
TotalLen(ss) == IF Len(ss) = 0 THEN 0 ELSE Len(ss[1]) + TotalLen(Tail(ss))

\* the body rows on display: those of every table in #tableContainer, or
\* those of #nakBody
DisplayedRows == IF page = "app" THEN TotalLen(container) ELSE Len(nakBody)

\* the pills on display in #summaryRow (on the app page each appended summary
\* is a group of pills)
DisplayedPills == IF page = "app" THEN TotalLen(summaryRow) ELSE Len(summaryRow)

\* C13 (as claimed): with no load outstanding (none suspended at its fetch
\* or at its body read), an error status means no table row and no summary
\* entry is displayed, and an OK status means the number of displayed rows
\* is the row count the status reports.
C13_StatusMatchesDisplay ==
    Outstanding = {} =>
        /\ status.kind = "err" => (DisplayedRows = 0 /\ DisplayedPills = 0)
        /\ status.kind = "ok" => DisplayedRows = status.rows

\* a payload one of whose sessions is a string
HasStringSession(data) ==
    \E i \in 1..Len(SessionEntries(data)) : SessionEntries(data)[i].val.kind = "string"

\* what does hold on the app page: after a load that had no other load
\* outstanding with it, an error status stands over an empty display, and an
\* OK status reports the number of displayed rows unless a session of the
\* payload is a string (whose length counts code units, while its rows are
\* its code points)
C13_AppSingleLoadAgrees ==
    (page = "app" /\ Outstanding = {} /\ burst = 1) =>
        /\ status.kind = "err" => (DisplayedRows = 0 /\ DisplayedPills = 0)
        /\ (status.kind = "ok" /\ ~HasStringSession(last.resp.data)) =>
               DisplayedRows = status.rows

\* the app page after a single load whose payload has a string session with
\* a character beyond U+FFFF: the status reports one row more than displayed
C13_AppStringSessionOff ==
    (page = "app" /\ Outstanding = {} /\ burst = 1 /\ issued = 1 /\ status.kind = "ok") =>
        DisplayedRows = status.rows

----------------------------------------------------------------------------
(* Claims about pickField *)

\* absent, null or the empty string
IsEmptyValue(v) == v = Undef \/ v = Null \/ v = Str(<<>>)

\* the exact keys of the call under which the record holds a non-empty
\* value.  The record is a JavaScript object: it holds a value under a key
\* when reading the key gives one, from an own entry or from a property
\* every object inherits (`key in record`).
PfExactHits == { i \in 1..Len(pf.exactKeys) : ~IsEmptyValue(Get(pf.row, pf.exactKeys[i])) }

\* the fallback of the call: the given one, or "" when the call leaves it out
PfFallback == IF pf.fallback = Undef THEN Str(<<>>) ELSE pf.fallback

\* the entries of the record with a non-empty value whose lower-cased key
\* contains a lower-cased fuzzy part
PfFuzzyHits == { j \in 1..Len(pf.row) :
                   /\ ~IsEmptyValue(pf.row[j].v)
                   /\ \E p \in 1..Len(pf.fuzzyParts) :
                        includes(toLowerCase(pf.row[j].k), toLowerCase(pf.fuzzyParts[p])) }

\* C5: if at least one exact key is present with a value that is neither
\* absent/null nor the empty string, pickField returns the value of the first
\* such key in exact-key list order, whatever the fuzzy parts match.
C5_ExactKeyFirst ==
    (pf.done /\ PfExactHits # {}) =>
        \E i \in PfExactHits :
            /\ \A h \in PfExactHits : i <= h
            /\ pf.out = Get(pf.row, pf.exactKeys[i])

\* C5 witness: a call returned the exact key's value although an earlier
\* entry of the record, under another key, matches a fuzzy part with another value.
C5_Witness ==
    /\ pf.done
    /\ PfExactHits # {}
    /\ \E j \in PfFuzzyHits :
          /\ pf.row[j].k \notin { pf.exactKeys[i] : i \in 1..Len(pf.exactKeys) }
          /\ pf.row[j].v # pf.out
          /\ \E e \in 1..Len(pf.row) :
                j < e /\ pf.row[e].k = pf.exactKeys[Min(PfExactHits)] /\ pf.row[e].v = pf.out

\* C6: only absent, null and the empty string are empty: an exact key holding
\* numeric 0 is returned as 0; the fallback is returned when nothing matches,
\* and when something matches the result is the value of a matching entry
\* (so a fallback no entry holds is returned exactly when nothing matches).
C6_ZeroIsNotEmpty ==
    pf.done =>
        /\ (Len(pf.exactKeys) > 0 /\ Get(pf.row, pf.exactKeys[1]) = Num(0)) => pf.out = Num(0)
        /\ (PfExactHits = {} /\ PfFuzzyHits = {}) => pf.out = PfFallback
        /\ (PfExactHits # {} \/ PfFuzzyHits # {}) =>
              \/ \E i \in PfExactHits : pf.out = Get(pf.row, pf.exactKeys[i])
              \/ \E j \in PfFuzzyHits : pf.out = pf.row[j].v
        /\ (\A j \in 1..Len(pf.row) : pf.row[j].v # PfFallback) =>
              (pf.out = PfFallback <=> (PfExactHits = {} /\ PfFuzzyHits = {}))

\* C6 witness: a call whose exact key holds numeric 0 returned 0 although its
\* fallback is another value, and (in another state) a call with no match
\* returned the fallback.
C6_Witness ==
    /\ pf.done
    /\ Len(pf.exactKeys) > 0
    /\ Get(pf.row, pf.exactKeys[1]) = Num(0)
    /\ pf.fallback # Num(0)
    /\ pf.out = Num(0)

\* the orderings of a list of fuzzy parts
PermutationsOf(parts) ==
    { [i \in 1..Len(parts) |-> parts[f[i]]] :
        f \in { g \in [1..Len(parts) -> 1..Len(parts)] :
                  \A a, b \in 1..Len(parts) : a # b => g[a] # g[b] } }

\* the fuzzy parts (by position) that the key of entry j matches
PfPartsMatching(j) ==
    { p \in 1..Len(pf.fuzzyParts) :
        includes(toLowerCase(pf.row[j].k), toLowerCase(pf.fuzzyParts[p])) }

\* C12: when no exact key matches and some entry with a non-empty value has
\* a key that, lower-cased, contains a lower-cased fuzzy part, pickField
\* returns the value of the first such entry in the record's entry order;
\* entries with an absent, null or empty value are passed over even when their
\* key matches; and the call gives the same result under every ordering of
\* its fuzzy parts.
C12_FuzzyRecordOrder ==
    (pf.done /\ PfExactHits = {}) =>
        /\ PfFuzzyHits # {} =>
              \E j \in PfFuzzyHits :
                  /\ \A h \in PfFuzzyHits : j <= h
                  /\ pf.out = pf.row[j].v
        /\ \A parts \in PermutationsOf(pf.fuzzyParts) :
              pickField(pf.row, pf.exactKeys, parts, pf.fallback) = pf.out

\* C12 witness: no exact key matched; the first entry's key matches only the
\* second fuzzy part, the second entry's key matches the first fuzzy part, the
\* two values differ, and the call returned the first entry's value.
C12_Witness ==
    /\ pf.done
    /\ PfExactHits = {}
    /\ Len(pf.row) = 2
    /\ PfFuzzyHits = {1, 2}
    /\ PfPartsMatching(1) = {2}
    /\ PfPartsMatching(2) = {1}
    /\ pf.row[1].v # pf.row[2].v
    /\ pf.out = pf.row[1].v

\* an entry whose key matches but whose value is null or empty was passed
\* over: the call returned the value of a later entry
C12_SkipsEmptyMatch ==
    /\ pf.done
    /\ PfExactHits = {}
    /\ Len(pf.row) = 2
    /\ IsEmptyValue(pf.row[1].v) /\ PfPartsMatching(1) # {}
    /\ PfFuzzyHits = {2}
    /\ pf.out = pf.row[2].v

----------------------------------------------------------------------------
(* Claims about classification and aggregation (render harness) *)

RdEntries == rd.data.sessions.entries
RdRecords(i) == RdEntries[i].val.items

\* the number a pill's text gives under a label
CountOf(pill, label) ==
    pill.counts[CHOOSE i \in 1..Len(pill.counts) : pill.counts[i].label = label].n

\* the summary entries proper (not the placeholder), by position
StatsPills == { p \in 1..Len(rd.summary.pills) : rd.summary.pills[p].kind = "stats" }

\* the session of the payload a summary entry names
EntryOfPill(pill) == CHOOSE i \in 1..Len(RdEntries) : toUpperCase(RdEntries[i].key) = pill.sess

\* the positions of the rendered rows that belong to the session of a pill
RowsOfSession(sess) == { j \in 1..Len(rd.table.rows) : rd.table.rows[j].sess = sess }

\* the direction rule of the specification, on a bias text
RuleDirection(text) ==
    IF includes(toLowerCase(text), T_bull) THEN "bull"
    ELSE IF includes(toLowerCase(text), T_bear) THEN "bear"
    ELSE "neutral"

RuleDirClass(text) ==
    CASE RuleDirection(text) = "bull" -> "bias-bull"
      [] RuleDirection(text) = "bear" -> "bias-bear"
      [] OTHER -> ""

\* C3 (as claimed): classifying the records of a payload never raises, in
\* either view: every record of every session is rendered and aggregated.
C3_ClassifyNeverRaises ==
    rd.done =>
        /\ ~rd.raised
        /\ \A i \in 1..Len(RdEntries) :
              Cardinality(RowsOfSession(toUpperCase(RdEntries[i].key))) = Len(RdRecords(i))

\* C7 (as claimed): in the nakshatra view the row's direction tag and the
\* summary's direction bucket both follow bull, else bear, else neutral.
C7_DirectionRule ==
    (rd.done /\ rd.view = "nakshatra") =>
        /\ \A j \in 1..Len(rd.table.rows) :
              rd.table.rows[j].dirClass = RuleDirClass(rd.table.rows[j].bias)
        /\ \A p \in 1..Len(rd.summary.pills) :
              rd.summary.pills[p].kind = "stats" =>
                 LET pill == rd.summary.pills[p]
                     n(d) == Cardinality({ j \in RowsOfSession(pill.sess) :
                                             RuleDirection(rd.table.rows[j].bias) = d })
                 IN  /\ CountOf(pill, "Bull") = n("bull")
                     /\ CountOf(pill, "Bear") = n("bear")
                     /\ CountOf(pill, "Neutral") = n("neutral")

\* the upper-cased recommendation text of a record (empty when absent)
RecUpper(row) ==
    LET v == Get(row, K_trade_recommendation)
    IN  IF v.t = "str" THEN toUpperCase(v.s) ELSE <<>>

\* the records of session i whose recommendation text satisfies P
RecCount(i, P(_)) == Cardinality({ j \in 1..Len(RdRecords(i)) : P(RecUpper(RdRecords(i)[j])) })

HasStrongBuy(u) == includes(u, T_STRONG_BUY)
HasStrongSell(u) == includes(u, T_STRONG_SELL)
HasStrongSellNoBuy(u) == includes(u, T_STRONG_SELL) /\ ~includes(u, T_BUY)
HasBuyOnly(u) == includes(u, T_BUY) /\ ~includes(u, T_STRONG_BUY)
HasSellOnly(u) == includes(u, T_SELL) /\ ~includes(u, T_STRONG_SELL) /\ ~includes(u, T_BUY)

\* C8 (as claimed): the classification is five-way and mutually exclusive
\* for every session of the payload: the session has its counts, strongBuy
\* counts its records whose text contains "STRONG BUY" and strongSell those
\* whose text contains "STRONG SELL", buy + strongBuy + sell + strongSell <=
\* total, total is the number of its records, and every rendered row whose
\* text contains "STRONG BUY" (or "STRONG SELL") is classified strong_buy
\* (or strong_sell).
C8_FiveWayEverySession ==
    (rd.done /\ rd.view = "app") =>
        /\ \A i \in 1..Len(RdEntries) :
              \E p \in StatsPills :
                 LET pill == rd.summary.pills[p]
                 IN  /\ pill.sess = toUpperCase(RdEntries[i].key)
                     /\ CountOf(pill, "SB") = RecCount(i, HasStrongBuy)
                     /\ CountOf(pill, "SS") = RecCount(i, HasStrongSell)
                     /\ CountOf(pill, "n") = Len(RdRecords(i))
                     /\ CountOf(pill, "SB") + CountOf(pill, "B") + CountOf(pill, "S")
                          + CountOf(pill, "SS") <= CountOf(pill, "n")
        /\ \A i \in 1..Len(RdEntries) :
              Cardinality(RowsOfSession(toUpperCase(RdEntries[i].key))) = Len(RdRecords(i))
        /\ \A j \in 1..Len(rd.table.rows) :
              LET r == rd.table.rows[j]
                  u == toUpperCase(r.rec)
              IN  /\ HasStrongBuy(u) => r.recClass = "rec-strong-buy"
                  /\ HasStrongSell(u) => r.recClass = "rec-strong-sell"

\* the clause of C8 that fails by the order of the tests alone, on the
\* summary entries that are made: every record whose text contains
\* "STRONG SELL" is counted in strongSell.
C8_StrongSellAlwaysStrongSell ==
    (rd.done /\ rd.view = "app") =>
        \A p \in StatsPills :
            CountOf(rd.summary.pills[p], "SS") =
                RecCount(EntryOfPill(rd.summary.pills[p]), HasStrongSell)

\* what the code does in every summary entry it makes and every row it
\* renders: strongBuy counts the session's records containing "STRONG BUY",
\* buy those containing "BUY" but not "STRONG BUY", strongSell those
\* containing "STRONG SELL" and no "BUY", sell those containing "SELL" but
\* neither "STRONG SELL" nor "BUY"; no record is counted twice.
C8_EntriesFiveWay ==
    (rd.done /\ rd.view = "app") =>
        /\ \A p \in StatsPills :
              LET pill == rd.summary.pills[p]
                  i == EntryOfPill(pill)
              IN  /\ CountOf(pill, "SB") = RecCount(i, HasStrongBuy)
                  /\ CountOf(pill, "B") = RecCount(i, HasBuyOnly)
                  /\ CountOf(pill, "SS") = RecCount(i, HasStrongSellNoBuy)
                  /\ CountOf(pill, "S") = RecCount(i, HasSellOnly)
                  /\ CountOf(pill, "n") = Len(RdRecords(i))
                  /\ CountOf(pill, "SB") + CountOf(pill, "B") + CountOf(pill, "S")
                       + CountOf(pill, "SS") <= CountOf(pill, "n")
        /\ \A j \in 1..Len(rd.table.rows) :
              LET r == rd.table.rows[j]
                  u == toUpperCase(r.rec)
              IN  /\ HasStrongBuy(u) => r.recClass = "rec-strong-buy"
                  /\ HasStrongSellNoBuy(u) => r.recClass = "rec-strong-sell"
                  /\ HasStrongSell(u) => r.recClass # "rec-sell"
                  /\ HasBuyOnly(u) => r.recClass = "rec-buy"
                  /\ HasSellOnly(u) => r.recClass = "rec-sell"
                  /\ (~includes(u, T_BUY) /\ ~includes(u, T_SELL)) => r.recClass = ""

\* the counts of a direction-based summary entry add up, and are those of
\* the records of its session
DirectionCountsOf(pill, i) ==
    LET mine == RowsOfSession(toUpperCase(RdEntries[i].key))
    IN  /\ CountOf(pill, "Bull") + CountOf(pill, "Bear") + CountOf(pill, "Neutral")
              = CountOf(pill, "n")
        /\ CountOf(pill, "n") = Len(RdRecords(i))
        /\ 0 <= CountOf(pill, "Strong tags")
        /\ CountOf(pill, "Strong tags") <= CountOf(pill, "n")
        /\ CountOf(pill, "Strong tags") =
              Cardinality({ j \in mine :
                  includes(toLowerCase(rd.table.rows[j].bias), T_strong) })

\* C9 (as claimed): after the direction-based summary processed a payload,
\* every session of it has its counts: bull + bear + neutral = total, total
\* is the number of records of the session, and 0 <= strong <= total, where
\* strong counts the records whose bias text contains "strong", whatever
\* their direction bucket.
C9_DirectionCountsAddUp ==
    (rd.done /\ rd.view = "nakshatra") =>
        /\ ~rd.raised
        /\ \A i \in 1..Len(RdEntries) :
              \E p \in StatsPills :
                  /\ rd.summary.pills[p].sess = toUpperCase(RdEntries[i].key)
                  /\ DirectionCountsOf(rd.summary.pills[p], i)

\* what does hold: the counts of every summary entry that is made add up
C9_EntriesAddUp ==
    (rd.done /\ rd.view = "nakshatra") =>
        /\ ~rd.raised
        /\ \A p \in StatsPills :
              DirectionCountsOf(rd.summary.pills[p], EntryOfPill(rd.summary.pills[p]))

\* a session was summarised in which one record is counted both in bull and
\* in strong, and another record is neutral with an empty bias
C9_Witness ==
    /\ rd.done /\ rd.view = "nakshatra"
    /\ \E p \in StatsPills :
          LET pill == rd.summary.pills[p]
          IN  /\ RdRecords(EntryOfPill(pill)) = <<R_strongBull, R_numeric>>
              /\ CountOf(pill, "Bull") = 1
              /\ CountOf(pill, "Strong tags") = 1
              /\ CountOf(pill, "Neutral") = 1
              /\ CountOf(pill, "n") = 2

\* C10 (as claimed): the summary of either view has exactly one entry per
\* session key of the payload, in key order, all counts 0 for a key whose
\* record sequence is empty, and is the single "no data" placeholder when
\* the mapping has no key.
C10_OneEntryPerSessionKey ==
    rd.done =>
        IF Len(RdEntries) = 0 THEN rd.summary.pills = <<NoRowsPill>>
        ELSE /\ Len(rd.summary.pills) = Len(RdEntries)
             /\ \A i \in 1..Len(RdEntries) :
                   /\ rd.summary.pills[i].kind = "stats"
                   /\ rd.summary.pills[i].sess = toUpperCase(RdEntries[i].key)
                   /\ Len(RdRecords(i)) = 0 =>
                         \A c \in 1..Len(rd.summary.pills[i].counts) :
                             rd.summary.pills[i].counts[c].n = 0

\* what does hold: a summary that was built has one entry, in key order, for
\* each session key that does not name a property every object inherits
C10_OneEntryPerBuiltSummary ==
    (rd.done /\ ~rd.raised) =>
        LET kept == SelectSeq(RdEntries, LAMBDA en : Get(<<>>, en.key) = Undef)
        IN  IF Len(kept) = 0 THEN rd.summary.pills = <<NoRowsPill>>
            ELSE /\ Len(rd.summary.pills) = Len(kept)
                 /\ \A i \in 1..Len(kept) :
                       /\ rd.summary.pills[i].kind = "stats"
                       /\ rd.summary.pills[i].sess = toUpperCase(kept[i].key)
                       /\ Len(kept[i].val.items) = 0 =>
                             \A c \in 1..Len(rd.summary.pills[i].counts) :
                                 rd.summary.pills[i].counts[c].n = 0

====
